---- MODULE Spec2Model ----
(***************************************************************************)
(* A model of createFirestoreMock (src/src/firestore-test-utils.ts): the   *)
(* in-memory store dbData, the memoized document handles, the shared batch *)
(* and the query chain.                                                    *)
(*                                                                         *)
(* Representation.                                                         *)
(*  - A path string is the sequence of its '/'-separated segments:         *)
(*    "users/al/posts" is <<"users","al","posts">>.  `${c}/${d}` appends   *)
(*    a segment, path.split('/') yields the segments.                      *)
(*  - dbData maps a collection path to a bucket; a bucket is the sequence  *)
(*    of its [id, obj] entries in insertion order (the property order of a *)
(*    JavaScript object, which Object.entries follows).                    *)
(*  - A stored document is a reference to an object.  Objects the mock     *)
(*    creates itself (deep clone, spread) have one owner and are held by   *)
(*    value: Own(fields).  Objects the caller passes to set() are stored   *)
(*    by reference: Ref(p), with the contents of p in heap.                *)
(*  - A field value is a tagged record: Undefined, Num, Str, DateV, a      *)
(*    Temporal Value (t = "ts") or Arr.                                    *)
(*  - ops is mockBatch._operations, nops counts the intents ever queued,   *)
(*    chain is the options of the query chain in hand, and last records    *)
(*    the last operation with the store it found (pre) and, for a query,   *)
(*    the snapshot it returned.                                            *)
(*  - chains is the sequence of the chain objects made so far, docMocks    *)
(*    the Map of memoized handles, snap a document snapshot the caller     *)
(*    keeps.                                                               *)
(***************************************************************************)
EXTENDS Integers, Sequences, FiniteSets, TLC

VARIABLES dbData, heap, ops, nops, chain, chains, docMocks, snap, last

vars == <<dbData, heap, ops, nops, chain, chains, docMocks, snap, last>>

----------------------------------------------------------------------------
(* Field values *)

Undefined == [t |-> "undefined"]

Num(n) == [t |-> "num", v |-> n]

Str(s) == [t |-> "str", v |-> s]

(* A native Date holding the time value ms. *)
DateV(ms) == [t |-> "date", ms |-> ms]

Arr(elems) == [t |-> "arr", v |-> elems]

(* a % n of JavaScript: the remainder takes the sign of a. *)
JsRem(a, n) == IF a >= 0 THEN a % n ELSE 0 - ((0 - a) % n)

(* Math.floor(a / n), n > 0. *)
JsFloorDiv(a, n) == a \div n

(* A Temporal Value: the _seconds and _nanoseconds fields and the Date that
   its toDate closure returns (toMillis returns that Date's time value). *)
TsOf(ms) ==
  [t |-> "ts", seconds |-> JsFloorDiv(ms, 1000),
   nanoseconds |-> JsRem(ms, 1000) * 1000000, date |-> ms]

(* Timestamp.fromMillis(ms), Timestamp.fromDate(new Date(ms)) *)
FromMillis(ms) == TsOf(ms)

(* Timestamp.fromDate(d) of a Date object d the caller keeps (hp[d] is the
   object): toDate returns d itself, so the value records which object
   that is (of); date is d's time value when the fields were computed. *)
FromDate(hp, d) ==
  [t |-> "ts", seconds |-> JsFloorDiv(hp[d].ms, 1000),
   nanoseconds |-> JsRem(hp[d].ms, 1000) * 1000000, date |-> hp[d].ms, of |-> d]

(* A nested plain object. *)
Obj(f) == [t |-> "obj", f |-> f]

(* The raw shape { _seconds, _nanoseconds } without conversions. *)
RawTs(seconds, nanoseconds) ==
  [t |-> "rawts", seconds |-> seconds, nanoseconds |-> nanoseconds]

(* The time value of new Date(a / n): the quotient without its fraction. *)
JsTrunc(a, n) == IF a >= 0 THEN a \div n ELSE -((-a) \div n)

(* Timestamp.now(): the data fields are taken once, toDate() and toMillis()
   read the clock at every call. *)
Now(hp) ==
  [t |-> "ts", seconds |-> JsFloorDiv(hp["clock"].ms, 1000),
   nanoseconds |-> JsRem(hp["clock"].ms, 1000) * 1000000,
   date |-> hp["clock"].ms, now |-> TRUE]

(* A value as a reader sees it: toDate() of a Temporal Value made from a
   kept Date object returns that object, with the time value it has now. *)
RECURSIVE ResolveValue(_, _)
ResolveValue(hp, v) ==
  IF v.t = "ts" /\ "of" \in DOMAIN v
  THEN [t |-> "ts", seconds |-> v.seconds, nanoseconds |-> v.nanoseconds,
        date |-> hp[v.of].ms]
  ELSE IF v.t = "ts" /\ "now" \in DOMAIN v
  THEN [t |-> "ts", seconds |-> v.seconds, nanoseconds |-> v.nanoseconds,
        date |-> hp["clock"].ms]
  ELSE IF v.t = "arr" THEN Arr([i \in 1..Len(v.v) |-> ResolveValue(hp, v.v[i])])
  ELSE IF v.t = "obj" THEN Obj([k \in DOMAIN v.f |-> ResolveValue(hp, v.f[k])])
  ELSE v

Resolve(hp, f) == [k \in DOMAIN f |-> ResolveValue(hp, f[k])]

(* obj.toDate() as deepCloneWithTimestamp calls it: a value made by now()
   answers with the clock's time at the call. *)
RECURSIVE ReadClock(_, _)
ReadClock(hp, v) ==
  IF v.t = "ts" /\ "now" \in DOMAIN v
  THEN [t |-> "ts", seconds |-> v.seconds, nanoseconds |-> v.nanoseconds,
        date |-> hp["clock"].ms, now |-> TRUE]
  ELSE IF v.t = "arr" THEN Arr([i \in 1..Len(v.v) |-> ReadClock(hp, v.v[i])])
  ELSE IF v.t = "obj" THEN Obj([k \in DOMAIN v.f |-> ReadClock(hp, v.f[k])])
  ELSE v

(* deepCloneWithTimestamp on a field value: the clone of a Temporal Value
   keeps the Date object the original's toDate() returned. *)
RECURSIVE DeepCloneValue(_)
DeepCloneValue(v) ==
  CASE v.t = "ts" /\ "of" \in DOMAIN v ->
         [t |-> "ts", seconds |-> JsFloorDiv(v.date, 1000),
          nanoseconds |-> JsRem(v.date, 1000) * 1000000, date |-> v.date, of |-> v.of]
    [] v.t = "ts" /\ "of" \notin DOMAIN v -> TsOf(v.date)
    [] v.t = "rawts" -> TsOf(JsTrunc(v.seconds * 1000000000 + v.nanoseconds, 1000000))
    [] v.t = "date" -> DateV(v.ms)
    [] v.t = "arr" -> Arr([i \in 1..Len(v.v) |-> DeepCloneValue(v.v[i])])
    [] v.t = "obj" -> Obj([k \in DOMAIN v.f |-> DeepCloneValue(v.f[k])])
    [] OTHER -> v

(* deepCloneWithTimestamp on a document's fields. *)
DeepCloneFields(f) == [k \in DOMAIN f |-> DeepCloneValue(f[k])]

(* {...a, ...b}: the keys of both, b's value on every shared key. *)
Spread(a, b) ==
  [k \in DOMAIN a \cup DOMAIN b |-> IF k \in DOMAIN b THEN b[k] ELSE a[k]]

EmptyDoc == [k \in {} |-> Undefined]

----------------------------------------------------------------------------
(* The store *)

Own(f) == [k |-> "own", f |-> f]

Ref(p) == [k |-> "ref", p |-> p]

(* The value of dbData[c]?.[d] when the collection or the document is absent. *)
Missing == [k |-> "undefined"]

(* Every stored document is an object, and an object is truthy. *)
Truthy(obj) == obj.k # "undefined"

(* The fields of the object a stored reference points to. *)
FieldsOf(hp, obj) == IF obj.k = "own" THEN obj.f ELSE hp[obj.p]

IndexOf(bucket, docId) ==
  IF \E i \in 1..Len(bucket) : bucket[i].id = docId
  THEN CHOOSE i \in 1..Len(bucket) : bucket[i].id = docId
  ELSE 0

(* dbData[collectionPath]?.[docId] *)
Lookup(db, collectionPath, docId) ==
  IF collectionPath \notin DOMAIN db THEN Missing
  ELSE LET i == IndexOf(db[collectionPath], docId)
       IN  IF i = 0 THEN Missing ELSE db[collectionPath][i].obj

(* if (!dbData[collectionPath]) dbData[collectionPath] = {} *)
EnsureColl(db, collectionPath) ==
  IF collectionPath \in DOMAIN db THEN db
  ELSE [c \in DOMAIN db \cup {collectionPath} |->
          IF c = collectionPath THEN <<>> ELSE db[c]]

(* dbData[collectionPath][docId] = obj: an existing key keeps its place, a
   new key goes last. *)
PutDoc(db, collectionPath, docId, obj) ==
  LET bucket == db[collectionPath]
      i == IndexOf(bucket, docId)
      entry == [id |-> docId, obj |-> obj]
  IN  [db EXCEPT ![collectionPath] =
         IF i = 0 THEN Append(bucket, entry) ELSE [bucket EXCEPT ![i] = entry]]

(* delete dbData[collectionPath][docId] *)
RemoveDoc(db, collectionPath, docId) ==
  LET bucket == db[collectionPath]
      i == IndexOf(bucket, docId)
  IN  [db EXCEPT ![collectionPath] =
         SubSeq(bucket, 1, i - 1) \o SubSeq(bucket, i + 1, Len(bucket))]

----------------------------------------------------------------------------
(* Document handles *)

(* `${collectionPath}/${docId}` *)
JoinPath(collectionPath, docId) == Append(collectionPath, docId)

GetDocMock(collectionPath, docId) ==
  [coll |-> collectionPath, id |-> docId, path |-> JoinPath(collectionPath, docId)]

SnapExists(db, h) == Truthy(Lookup(db, h.coll, h.id))

(* data() of a document snapshot: the stored object's fields, or undefined. *)
SnapData(db, hp, h) ==
  LET obj == Lookup(db, h.coll, h.id)
  IN  IF obj.k = "undefined" THEN Undefined ELSE FieldsOf(hp, obj)

(* A subcollection path that leaves out the parent document's id. *)
SubCollectionOfParentCollection(h, subCollectionPath) ==
  Append(h.coll, subCollectionPath)

(* handle.collection(subCollectionPath): `${path}/${subCollectionPath}`. *)
SubCollection(h, subCollectionPath) == Append(h.path, subCollectionPath)

(* collection.add(data): data is stored as it is under the new id. *)
CollectionAdd(db, collectionPath, newId, p) ==
  PutDoc(EnsureColl(db, collectionPath), collectionPath, newId, Ref(p))

(* Faulty variants of set and delete, against which the properties of the
   handles are tested: a set that always merges, a merge in which the old
   value wins, and a delete that removes nothing. *)
HandleSetAlwaysMerge(db, hp, h, p, merge) ==
  LET db1 == EnsureColl(db, h.coll)
      cur == Lookup(db1, h.coll, h.id)
  IN  IF cur.k # "undefined"
      THEN PutDoc(db1, h.coll, h.id, Own(Spread(FieldsOf(hp, cur), hp[p])))
      ELSE PutDoc(db1, h.coll, h.id, Ref(p))

HandleSetOldWins(db, hp, h, p, merge) ==
  LET db1 == EnsureColl(db, h.coll)
      cur == Lookup(db1, h.coll, h.id)
  IN  IF merge /\ cur.k # "undefined"
      THEN PutDoc(db1, h.coll, h.id, Own(Spread(hp[p], FieldsOf(hp, cur))))
      ELSE PutDoc(db1, h.coll, h.id, Ref(p))

HandleDeleteKeepsDoc(db, h) == db

(* docMocks: the Map from a path to the handle object made for it.  The
   objects made for one path are told apart by a serial number; the empty
   Map has no path. *)
NoHandles == [path \in {} |-> 0]

(* getDocMock's memo: if (!docMocks.has(path)) docMocks.set(path, newMock) *)
Memoize(dm, path) ==
  IF path \in DOMAIN dm THEN dm
  ELSE [q \in DOMAIN dm \cup {path} |-> IF q = path THEN 1 ELSE dm[q]]

(* docMocks.get(path): the handle object, known by its path and serial. *)
Instance(dm, path) == [path |-> path, serial |-> dm[path]]

(* getDocMock called for each path of a sequence in turn. *)
RECURSIVE MemoizeAll(_, _)
MemoizeAll(dm, paths) ==
  IF paths = <<>> THEN dm ELSE MemoizeAll(Memoize(dm, Head(paths)), Tail(paths))

(* No document snapshot is held. *)
NoSnapshot == [held |-> FALSE]

(* data() of a document snapshot as its reader sees it. *)
SnapView(db, hp, h) ==
  LET obj == Lookup(db, h.coll, h.id)
  IN  IF obj.k = "undefined" THEN Undefined ELSE Resolve(hp, FieldsOf(hp, obj))

(* handle.set(data, options): the new dbData. *)
HandleSet(db, hp, h, p, merge) ==
  LET db1 == EnsureColl(db, h.coll)
      cur == Lookup(db1, h.coll, h.id)
  IN  IF merge
      THEN IF cur.k # "undefined"
           THEN PutDoc(db1, h.coll, h.id, Own(Spread(FieldsOf(hp, cur), hp[p])))
           ELSE PutDoc(db1, h.coll, h.id, Ref(p))
      ELSE PutDoc(db1, h.coll, h.id, Ref(p))

(* handle.update(data): the new dbData. *)
HandleUpdate(db, hp, h, p) ==
  LET cur == Lookup(db, h.coll, h.id)
  IN  IF Truthy(cur)
      THEN PutDoc(db, h.coll, h.id, Own(Spread(FieldsOf(hp, cur), hp[p])))
      ELSE db

(* handle.delete(): the new dbData. *)
HandleDelete(db, h) ==
  IF Truthy(Lookup(db, h.coll, h.id)) THEN RemoveDoc(db, h.coll, h.id) ELSE db

----------------------------------------------------------------------------
(* The shared batch (mockBatch) *)

(* What batch.set, batch.update and batch.delete push onto _operations. *)
SetOp(h, p, merge) == [type |-> "set", ref |-> h, data |-> p, merge |-> merge]

UpdateOp(h, p) == [type |-> "update", ref |-> h, data |-> p, merge |-> FALSE]

DeleteOp(h) == [type |-> "delete", ref |-> h, data |-> "none", merge |-> FALSE]

(* const parts = path.split('/'); collectionPath = parts[0]; docId = parts[1] *)
OpColl(op) == <<op.ref.path[1]>>

(* parts[1] is undefined when the path has one segment; as a property key
   undefined is the string "undefined". *)
OpDocId(op) == IF Len(op.ref.path) >= 2 THEN op.ref.path[2] ELSE "undefined"

(* Object.assign(target, source) on a stored object: an object the store
   owns changes in its slot, a caller's object changes in the heap. *)
AssignInPlace(st, collectionPath, docId, src) ==
  LET cur == Lookup(st.db, collectionPath, docId)
      merged == Spread(FieldsOf(st.hp, cur), src)
  IN  IF cur.k = "own"
      THEN [st EXCEPT !.db = PutDoc(st.db, collectionPath, docId, Own(merged))]
      ELSE [st EXCEPT !.hp = [st.hp EXCEPT ![cur.p] = merged]]

(* The body of commit's forEach for one queued operation; st = [db, hp]. *)
ApplyOp(st, op) ==
  LET collectionPath == OpColl(op)
      docId == OpDocId(op)
      cur == Lookup(st.db, collectionPath, docId)
  IN  CASE op.type = "delete" ->
             IF Truthy(cur)
             THEN [st EXCEPT !.db = RemoveDoc(st.db, collectionPath, docId)]
             ELSE st
        [] op.type = "update" ->
             IF Truthy(cur)
             THEN AssignInPlace(st, collectionPath, docId, st.hp[op.data])
             ELSE st
        [] op.type = "set" ->
             LET db1 == EnsureColl(st.db, collectionPath)
             IN  IF op.merge
                 THEN [st EXCEPT !.db =
                         PutDoc(db1, collectionPath, docId,
                                Own(Spread(IF Truthy(cur) THEN FieldsOf(st.hp, cur) ELSE EmptyDoc,
                                           st.hp[op.data])))]
                 ELSE [st EXCEPT !.db = PutDoc(db1, collectionPath, docId, Ref(op.data))]

(* this._operations.forEach(...): the queue applied front to back. *)
RECURSIVE CommitAll(_, _)
CommitAll(st, queue) ==
  IF queue = <<>> THEN st ELSE CommitAll(ApplyOp(st, Head(queue)), Tail(queue))

----------------------------------------------------------------------------
(* JavaScript's comparison of field values, as the query engine uses it *)

(* The UTF-16 code units of the strings of the model. *)
CharCodes(s) ==
  CASE s = "a" -> <<97>>
    [] s = "b" -> <<98>>
    [] s = "da" -> <<100, 97>>
    [] s = "db" -> <<100, 98>>
    [] s = "dc" -> <<100, 99>>
    [] s = "alice" -> <<97, 108, 105, 99, 101>>
    [] s = "bob" -> <<98, 111, 98>>
    [] s = "first" -> <<102, 105, 114, 115, 116>>
    [] s = "1970-01-01" -> <<49, 57, 55, 48, 45, 48, 49, 45, 48, 49>>

(* String(obj) of a plain object: "[object Object]". *)
ObjectObjectCodes ==
  <<91, 111, 98, 106, 101, 99, 116, 32, 79, 98, 106, 101, 99, 116, 93>>

NaN == [nan |-> TRUE]

Finite(n) == [nan |-> FALSE, v |-> n]

(* new Date(s).getTime() for the strings of the model: the ISO date parses
   to its UTC midnight, a word without digits is an Invalid Date. *)
DateParse(s) == IF s = "1970-01-01" THEN Finite(0) ELSE NaN

(* String(n) of an integer. *)
RECURSIVE NumToCodes(_)
NumToCodes(n) ==
  IF n < 0 THEN <<45>> \o NumToCodes(0 - n)
  ELSE IF n < 10 THEN <<48 + n>>
  ELSE NumToCodes(n \div 10) \o <<48 + (n % 10)>>

IsDigits(c) == Len(c) > 0 /\ \A i \in 1..Len(c) : c[i] \in 48..57

RECURSIVE DigitsValue(_)
DigitsValue(c) ==
  IF c = <<>> THEN 0 ELSE 10 * DigitsValue(SubSeq(c, 1, Len(c) - 1)) + (c[Len(c)] - 48)

(* Number(string): the empty string is 0, a decimal integer is its value,
   anything else of the model's strings is NaN. *)
CodesToNum(c) ==
  IF c = <<>> THEN Finite(0)
  ELSE IF IsDigits(c) THEN Finite(DigitsValue(c))
  ELSE IF c[1] = 45 /\ IsDigits(Tail(c)) THEN Finite(0 - DigitsValue(Tail(c)))
  ELSE NaN

(* An array element as Array.prototype.join writes it. *)
ElemCodes(e) ==
  CASE e.t = "num" -> NumToCodes(e.v)
    [] e.t = "str" -> CharCodes(e.v)
    [] e.t = "undefined" -> <<>>

RECURSIVE JoinCodes(_)
JoinCodes(elems) ==
  IF elems = <<>> THEN <<>>
  ELSE IF Len(elems) = 1 THEN ElemCodes(elems[1])
  ELSE ElemCodes(elems[1]) \o <<44>> \o JoinCodes(Tail(elems))

(* ToPrimitive with hint number: a Date gives its time value, an array its
   join, a Temporal Value (a plain object) "[object Object]". *)
ToPrimitive(v) ==
  CASE v.t = "undefined" -> [p |-> "undefined"]
    [] v.t = "num" -> [p |-> "num", v |-> v.v]
    [] v.t = "str" -> [p |-> "str", c |-> CharCodes(v.v)]
    [] v.t = "date" -> [p |-> "num", v |-> v.ms]
    [] v.t = "ts" -> [p |-> "str", c |-> ObjectObjectCodes]
    [] v.t = "rawts" -> [p |-> "str", c |-> ObjectObjectCodes]
    [] v.t = "obj" -> [p |-> "str", c |-> ObjectObjectCodes]
    [] v.t = "arr" -> [p |-> "str", c |-> JoinCodes(v.v)]

ToNumber(prim) ==
  CASE prim.p = "undefined" -> NaN
    [] prim.p = "num" -> Finite(prim.v)
    [] prim.p = "str" -> CodesToNum(prim.c)

(* Number(val) of a string value. *)
NumberOfString(s) == CodesToNum(CharCodes(s))

(* c1 < c2 on strings: by code units, a proper prefix first. *)
RECURSIVE CodesLess(_, _)
CodesLess(c1, c2) ==
  IF c2 = <<>> THEN FALSE
  ELSE IF c1 = <<>> THEN TRUE
  ELSE IF c1[1] # c2[1] THEN c1[1] < c2[1]
  ELSE CodesLess(Tail(c1), Tail(c2))

(* The abstract relational comparison x < y: "true", "false" or
   "undefined" (an operand is NaN). *)
RelLess(x, y) ==
  LET px == ToPrimitive(x)
      py == ToPrimitive(y)
  IN  IF px.p = "str" /\ py.p = "str"
      THEN (IF CodesLess(px.c, py.c) THEN "true" ELSE "false")
      ELSE LET nx == ToNumber(px)
               ny == ToNumber(py)
           IN  IF nx.nan \/ ny.nan THEN "undefined"
               ELSE IF nx.v < ny.v THEN "true" ELSE "false"

JsLt(x, y) == RelLess(x, y) = "true"

JsGt(x, y) == RelLess(y, x) = "true"

JsLe(x, y) == RelLess(y, x) = "false"

JsGe(x, y) == RelLess(x, y) = "false"

(* x === y.  A Date, a Temporal Value or an array is an object, equal only
   to itself; the objects of a stored document are never the caller's. *)
StrictEq(x, y) ==
  /\ x.t = y.t
  /\ x.t \in {"undefined", "num", "str"}
  /\ x = y

(* arr.includes(x) *)
Includes(arr, x) == \E i \in 1..Len(arr.v) : StrictEq(arr.v[i], x)

IsArray(v) == v.t = "arr"

(* !val *)
Falsy(v) ==
  \/ v.t = "undefined"
  \/ v.t = "num" /\ v.v = 0
  \/ v.t = "str" /\ v.v = ""

----------------------------------------------------------------------------
(* The query engine (createQueryChain) *)

(* A faulty variant of toDate that leaves a Temporal Value as it is, so
   that it is compared as an object. *)
ToDateSkipsTemporal(val) ==
  IF val.t = "str" /\ NumberOfString(val.v).nan /\ ~DateParse(val.v).nan
  THEN DateV(DateParse(val.v).v)
  ELSE val

(* toDate of get(): the value as a Date where it can be read as one. *)
ToDate(val) ==
  IF Falsy(val) THEN val
  ELSE IF val.t = "date" THEN val
  ELSE IF val.t = "ts" THEN DateV(val.date)
  ELSE IF val.t = "rawts"
       THEN DateV(JsTrunc(val.seconds * 1000000000 + val.nanoseconds, 1000000))
  ELSE IF val.t = "str" /\ NumberOfString(val.v).nan /\ ~DateParse(val.v).nan
       THEN DateV(DateParse(val.v).v)
  ELSE val

IsDate(v) == v.t = "date"

(* The switch over filter.op on two Dates' time values. *)
DateSwitch(op, a, b) ==
  CASE op = "==" -> a = b
    [] op = ">=" -> a >= b
    [] op = "<=" -> a <= b
    [] op = ">" -> a > b
    [] op = "<" -> a < b
    [] OTHER -> FALSE

(* A faulty variant of the raw switch that keeps every document when the
   operator is none of its cases. *)
RawSwitchFailsOpen(op, docValue, value) ==
  CASE op = "==" -> StrictEq(docValue, value)
    [] op = "!=" -> ~StrictEq(docValue, value)
    [] op = ">" -> JsGt(docValue, value)
    [] op = ">=" -> JsGe(docValue, value)
    [] op = "<" -> JsLt(docValue, value)
    [] op = "<=" -> JsLe(docValue, value)
    [] op = "in" -> IsArray(value) /\ Includes(value, docValue)
    [] op = "not-in" -> ~(IsArray(value) /\ Includes(value, docValue))
    [] op = "array-contains" -> IsArray(docValue) /\ Includes(docValue, value)
    [] op = "array-contains-any" ->
         /\ IsArray(docValue)
         /\ IsArray(value)
         /\ \E i \in 1..Len(value.v) : Includes(docValue, value.v[i])
    [] OTHER -> TRUE

(* The switch over filter.op on the raw values. *)
RawSwitch(op, docValue, value) ==
  CASE op = "==" -> StrictEq(docValue, value)
    [] op = "!=" -> ~StrictEq(docValue, value)
    [] op = ">" -> JsGt(docValue, value)
    [] op = ">=" -> JsGe(docValue, value)
    [] op = "<" -> JsLt(docValue, value)
    [] op = "<=" -> JsLe(docValue, value)
    [] op = "in" -> IsArray(value) /\ Includes(value, docValue)
    [] op = "not-in" -> ~(IsArray(value) /\ Includes(value, docValue))
    [] op = "array-contains" -> IsArray(docValue) /\ Includes(docValue, value)
    [] op = "array-contains-any" ->
         /\ IsArray(docValue)
         /\ IsArray(value)
         /\ \E i \in 1..Len(value.v) : Includes(docValue, value.v[i])
    [] OTHER -> FALSE

(* doc[field] of the merged document. *)
FieldValue(doc, field) == IF field \in DOMAIN doc THEN doc[field] ELSE Undefined

(* The predicate of allDocs.filter for one filter; doc is { id, ...data }. *)
Matches(doc, filter) ==
  LET docValue == IF filter.field = "__name__" THEN doc["id"]
                  ELSE FieldValue(doc, filter.field)
      comparableDocValue == ToDate(docValue)
      comparableValue == ToDate(filter.value)
  IN  IF IsDate(comparableDocValue) /\ IsDate(comparableValue)
      THEN DateSwitch(filter.op, comparableDocValue.ms, comparableValue.ms)
      ELSE RawSwitch(filter.op, docValue, filter.value)

(* Object.entries(collectionData).map(([id, data]) => ({ id, ...data })),
   with the key each entry was stored under kept beside it. *)
AllDocs(db, hp, collectionPath) ==
  LET bucket == IF collectionPath \in DOMAIN db THEN db[collectionPath] ELSE <<>>
  IN  [i \in 1..Len(bucket) |->
         [key |-> bucket[i].id,
          doc |-> Spread([id |-> Str(bucket[i].id)],
                         Resolve(hp, FieldsOf(hp, bucket[i].obj)))]]

RECURSIVE SelectSeq2(_, _)
SelectSeq2(docs, filter) ==
  IF docs = <<>> THEN <<>>
  ELSE (IF Matches(Head(docs).doc, filter) THEN <<Head(docs)>> ELSE <<>>)
         \o SelectSeq2(Tail(docs), filter)

(* filters.forEach(filter => allDocs = allDocs.filter(...)) *)
RECURSIVE ApplyFilters(_, _)
ApplyFilters(docs, filters) ==
  IF filters = <<>> THEN docs
  ELSE ApplyFilters(SelectSeq2(docs, Head(filters)), Tail(filters))

(* The comparator of allDocs.sort: -1, 0 or 1. *)
Compare(a, b, orderBy) ==
  LET valA == FieldValue(a.doc, orderBy.field)
      valB == FieldValue(b.doc, orderBy.field)
      order == IF orderBy.direction = "desc" THEN 0 - 1 ELSE 1
  IN  IF JsLt(valA, valB) THEN (0 - 1) * order
      ELSE IF JsGt(valA, valB) THEN order
      ELSE 0

(* Array.prototype.sort as V8 runs it on an array shorter than 64: the
   leading run is counted (and reversed when strictly descending), the rest
   is inserted by binary insertion.  With a consistent comparator this is
   the stable sort. *)
RECURSIVE RunLength(_, _, _, _)
RunLength(arr, idx, isDescending, orderBy) ==
  IF idx > Len(arr) THEN Len(arr)
  ELSE LET order == Compare(arr[idx], arr[idx - 1], orderBy)
       IN  IF (isDescending /\ order >= 0) \/ (~isDescending /\ order < 0)
           THEN idx - 1
           ELSE RunLength(arr, idx + 1, isDescending, orderBy)

Reverse(arr) == [i \in 1..Len(arr) |-> arr[Len(arr) + 1 - i]]

RECURSIVE BinarySearch(_, _, _, _, _)
BinarySearch(arr, pivot, left, right, orderBy) ==
  IF left >= right THEN left
  ELSE LET mid == left + ((right - left) \div 2)
       IN  IF Compare(pivot, arr[mid], orderBy) < 0
           THEN BinarySearch(arr, pivot, left, mid, orderBy)
           ELSE BinarySearch(arr, pivot, mid + 1, right, orderBy)

RECURSIVE BinaryInsertionSort(_, _, _)
BinaryInsertionSort(arr, start, orderBy) ==
  IF start > Len(arr) THEN arr
  ELSE LET pivot == arr[start]
           left == BinarySearch(arr, pivot, 1, start, orderBy)
           moved == SubSeq(arr, 1, left - 1) \o <<pivot>> \o SubSeq(arr, left, start - 1)
                      \o SubSeq(arr, start + 1, Len(arr))
       IN  BinaryInsertionSort(moved, start + 1, orderBy)

SortDocs(arr, orderBy) ==
  IF Len(arr) < 2 THEN arr
  ELSE LET isDescending == Compare(arr[2], arr[1], orderBy) < 0
           run == RunLength(arr, 3, isDescending, orderBy)
           made == IF isDescending
                   THEN Reverse(SubSeq(arr, 1, run)) \o SubSeq(arr, run + 1, Len(arr))
                   ELSE arr
       IN  BinaryInsertionSort(made, run + 1, orderBy)

(* A chain's options: the filters, at most one ordering, at most one limit
   (an absent option is the empty sequence). *)
NewChain(collectionPath) ==
  [coll |-> collectionPath, filters |-> <<>>, orderBy |-> <<>>, limit |-> <<>>]

(* allDocs.slice(0, limit), limit >= 0 *)
Slice(arr, limit) == SubSeq(arr, 1, IF limit < Len(arr) THEN limit ELSE Len(arr))

(* `${collectionPath}/${id}` takes the id as a string. *)
IdString(v) == IF v.t = "str" THEN v.v ELSE ToString(v.v)

(* One entry of snapshot.docs (key: where the document is stored). *)
SnapshotDoc(collectionPath, d) ==
  [id |-> d.doc["id"],
   data |-> [k \in DOMAIN d.doc \ {"id"} |-> d.doc[k]],
   exists |-> TRUE,
   ref |-> GetDocMock(collectionPath, IdString(d.doc["id"])),
   key |-> d.key]

(* if (orderBy) allDocs.sort(...) *)
SortStep(arr, options) ==
  IF options.orderBy # <<>> THEN SortDocs(arr, options.orderBy[1]) ELSE arr

(* if (limit) allDocs = allDocs.slice(0, limit) *)
LimitStep(arr, options) ==
  IF options.limit # <<>> THEN Slice(arr, options.limit[1]) ELSE arr

(* The snapshot get() resolves to. *)
QuerySnapshot(arr, options) ==
  [docs |-> [i \in 1..Len(arr) |-> SnapshotDoc(options.coll, arr[i])],
   empty |-> Len(arr) = 0,
   size |-> Len(arr)]

(* The paths get() calls getDocMock with, one for each entry in turn. *)
RefPaths(snapshot) == [k \in 1..Len(snapshot.docs) |-> snapshot.docs[k].ref.path]

(* get() of a query chain: filters, then the ordering, then the limit. *)
QueryGet(db, hp, options) ==
  QuerySnapshot(
    LimitStep(
      SortStep(ApplyFilters(AllDocs(db, hp, options.coll), options.filters), options),
      options),
    options)

----------------------------------------------------------------------------
(* Chain objects.  Each call of createQueryChain makes one; chains lists
   them in the order they were made.  Beside its options a chain object
   carries the record of the call that made it: the index of the chain the
   call was made on (0 for the root) and the call. *)

RootChain(collectionPath) ==
  [options |-> NewChain(collectionPath), madeFrom |-> 0, call |-> [fn |-> "collection"]]

(* A faulty variant of where that also pushes the filter onto the filters
   of the chain it is called on. *)
ChainWhereInPlace(cs, i, filter) ==
  LET pushed == [cs EXCEPT ![i].options.filters = Append(@, filter)]
  IN  Append(pushed, [options |-> pushed[i].options, madeFrom |-> i,
                      call |-> [fn |-> "where", arg |-> filter]])

(* createQueryChain({...options, filters: [...filters, {field, op, value}]}) *)
ChainWhere(cs, i, filter) ==
  Append(cs, [options |-> [cs[i].options EXCEPT !.filters = Append(@, filter)],
              madeFrom |-> i, call |-> [fn |-> "where", arg |-> filter]])

(* A faulty variant of orderBy that keeps an ordering the chain already
   has. *)
ChainOrderByKeepsEarlier(cs, i, ordering) ==
  Append(cs, [options |-> [cs[i].options EXCEPT
                             !.orderBy = IF @ = <<>> THEN <<ordering>> ELSE @],
              madeFrom |-> i, call |-> [fn |-> "orderBy", arg |-> ordering]])

(* createQueryChain({...options, orderBy: { field, direction }}) *)
ChainOrderBy(cs, i, ordering) ==
  Append(cs, [options |-> [cs[i].options EXCEPT !.orderBy = <<ordering>>],
              madeFrom |-> i, call |-> [fn |-> "orderBy", arg |-> ordering]])

(* createQueryChain({...options, limit: limitValue}) *)
ChainLimit(cs, i, limitValue) ==
  Append(cs, [options |-> [cs[i].options EXCEPT !.limit = <<limitValue>>],
              madeFrom |-> i, call |-> [fn |-> "limit", arg |-> limitValue]])

----------------------------------------------------------------------------
(* The universe of the model *)

(* The most intents enqueued on the batch over the life of the mock. *)
MaxOps == 2

UsersColl == <<"users">>

PostsColl == <<"users", "alice", "posts">>

Handles ==
  { GetDocMock(UsersColl, "alice"), GetDocMock(UsersColl, "bob"),
    GetDocMock(PostsColl, "first") }

Payloads == {"P0", "PA", "PB"}

InitHeap ==
  [p \in Payloads |->
     CASE p = "P0" -> EmptyDoc
       [] p = "PA" -> [a |-> Num(1), b |-> Num(1)]
       [] p = "PB" -> [b |-> Num(2)]]

SeedDoc == [a |-> Num(2)]

(* createFirestoreMock(initialData): dbData is the deep clone of the seed.
   A seed maps a collection path to its [id, fields] entries in the order
   the literal lists them. *)
CreateFirestoreMock(initialData) ==
  [c \in DOMAIN initialData |->
     [i \in 1..Len(initialData[c]) |->
        [id |-> initialData[c][i].id,
         obj |-> Own(DeepCloneFields(initialData[c][i].fields))]]]

(* The seed holding SeedDoc under every handle of hs. *)
SeedOf(hs) ==
  LET colls == {h.coll : h \in hs}
      Entry(c, d) == IF GetDocMock(c, d) \in hs THEN <<[id |-> d, fields |-> SeedDoc]>> ELSE <<>>
      Bucket(c) == IF c = UsersColl THEN Entry(c, "alice") \o Entry(c, "bob")
                   ELSE Entry(c, "first")
  IN  [c \in colls |-> Bucket(c)]

Seeds == {SeedOf(hs) : hs \in SUBSET Handles}

ItemsColl == <<"items">>

----------------------------------------------------------------------------
(* The mock as a state machine: document handles *)

Init ==
  /\ dbData \in {CreateFirestoreMock(seed) : seed \in Seeds}
  /\ heap = InitHeap
  /\ ops = <<>>
  /\ nops = 0
  /\ chain = NewChain(UsersColl)
  /\ chains = <<>>
  /\ docMocks = NoHandles
  /\ snap = NoSnapshot
  /\ last = [op |-> "init"]

(* The handle actions take the handle h by collection(c).doc(id), which
   memoizes it, and call it. *)
DocGet(h) ==
  /\ last' = [op |-> "get", h |-> h,
              snap |-> [id |-> h.id, exists |-> SnapExists(dbData, h)],
              pre |-> [db |-> dbData, hp |-> heap]]
  /\ docMocks' = Memoize(docMocks, h.path)
  /\ UNCHANGED <<dbData, heap, ops, nops, chain, chains, snap>>

DocSet(h, p, merge) ==
  /\ dbData' = HandleSet(dbData, heap, h, p, merge)
  /\ last' = [op |-> "set", h |-> h, p |-> p, merge |-> merge,
              pre |-> [db |-> dbData, hp |-> heap]]
  /\ docMocks' = Memoize(docMocks, h.path)
  /\ UNCHANGED <<heap, ops, nops, chain, chains, snap>>

DocUpdate(h, p) ==
  /\ dbData' = HandleUpdate(dbData, heap, h, p)
  /\ last' = [op |-> "update", h |-> h, p |-> p,
              pre |-> [db |-> dbData, hp |-> heap]]
  /\ docMocks' = Memoize(docMocks, h.path)
  /\ UNCHANGED <<heap, ops, nops, chain, chains, snap>>

DocDelete(h) ==
  /\ dbData' = HandleDelete(dbData, h)
  /\ last' = [op |-> "delete", h |-> h,
              pre |-> [db |-> dbData, hp |-> heap]]
  /\ docMocks' = Memoize(docMocks, h.path)
  /\ UNCHANGED <<heap, ops, nops, chain, chains, snap>>

Next ==
  \/ \E h \in Handles : DocGet(h)
  \/ \E h \in Handles, p \in Payloads, merge \in BOOLEAN : DocSet(h, p, merge)
  \/ \E h \in Handles, p \in Payloads : DocUpdate(h, p)
  \/ \E h \in Handles : DocDelete(h)

Spec == Init /\ [][Next]_vars

----------------------------------------------------------------------------
(* The mock as a state machine: the batch *)

(* batch.set(docRef, data, options): push, nothing else. *)
BatchSet(h, p, merge) ==
  /\ nops < MaxOps
  /\ ops' = Append(ops, SetOp(h, p, merge))
  /\ nops' = nops + 1
  /\ last' = [op |-> "enqueue", intent |-> SetOp(h, p, merge),
              pre |-> [db |-> dbData, hp |-> heap]]
  /\ docMocks' = Memoize(docMocks, h.path)
  /\ UNCHANGED <<dbData, heap, chain, chains, snap>>

(* A commit that leaves the queue as it is. *)
KeepOperations(queue) == queue

(* this._operations = [] at the end of commit. *)
ClearOperations(queue) == <<>>

(* batch.update(docRef, data) *)
BatchUpdate(h, p) ==
  /\ nops < MaxOps
  /\ ops' = Append(ops, UpdateOp(h, p))
  /\ nops' = nops + 1
  /\ last' = [op |-> "enqueue", intent |-> UpdateOp(h, p),
              pre |-> [db |-> dbData, hp |-> heap]]
  /\ docMocks' = Memoize(docMocks, h.path)
  /\ UNCHANGED <<dbData, heap, chain, chains, snap>>

(* batch.delete(docRef) *)
BatchDelete(h) ==
  /\ nops < MaxOps
  /\ ops' = Append(ops, DeleteOp(h))
  /\ nops' = nops + 1
  /\ last' = [op |-> "enqueue", intent |-> DeleteOp(h),
              pre |-> [db |-> dbData, hp |-> heap]]
  /\ docMocks' = Memoize(docMocks, h.path)
  /\ UNCHANGED <<dbData, heap, chain, chains, snap>>

BatchCommit ==
  LET st == CommitAll([db |-> dbData, hp |-> heap], ops)
  IN  /\ dbData' = st.db
      /\ heap' = st.hp
      /\ ops' = ClearOperations(ops)
      /\ last' = [op |-> "commit", queue |-> ops, outcome |-> "resolves",
                  pre |-> [db |-> dbData, hp |-> heap]]
      /\ UNCHANGED <<nops, chain, chains, docMocks, snap>>

NextBatch ==
  \/ \E h \in Handles : BatchSet(h, "PA", FALSE)
  \/ \E h \in Handles : BatchSet(h, "PB", TRUE)
  \/ \E h \in Handles : BatchUpdate(h, "PB")
  \/ \E h \in Handles : BatchDelete(h)
  \/ BatchCommit

SpecBatch == Init /\ [][NextBatch]_vars

(* batch.set(docRef, data) with an object of the caller as docRef. *)
BatchSetRef(path, p) ==
  /\ nops < MaxOps
  /\ ops' = Append(ops, SetOp([coll |-> <<>>, id |-> "", path |-> path], p, FALSE))
  /\ nops' = nops + 1
  /\ last' = [op |-> "enqueue", intent |-> SetOp([coll |-> <<>>, id |-> "", path |-> path], p, FALSE),
              pre |-> [db |-> dbData, hp |-> heap]]
  /\ UNCHANGED <<dbData, heap, chain, chains, docMocks, snap>>

(* The batch with intents whose path lacks a segment: the handle
   collection('').doc('alice') (path '/alice'), the caller's { path: 'users' }
   and { path: '' }, beside intents on users/alice. *)
NextBadPath ==
  \/ BatchSet(GetDocMock(UsersColl, "alice"), "PA", FALSE)
  \/ BatchDelete(GetDocMock(UsersColl, "alice"))
  \/ BatchSet(GetDocMock(<<"">>, "alice"), "PB", FALSE)
  \/ BatchUpdate(GetDocMock(<<"">>, "alice"), "PA")
  \/ \E path \in {<<"users">>, <<"">>} : BatchSetRef(path, "PB")
  \/ BatchCommit

SpecBadPath == Init /\ [][NextBadPath]_vars

(* Handle writes and the batch on the documents of one top-level
   collection, with payload objects that may be passed more than once. *)
InitAlias ==
  /\ dbData \in {CreateFirestoreMock(SeedOf(hs)) :
                    hs \in SUBSET {GetDocMock(UsersColl, "alice"), GetDocMock(UsersColl, "bob")}}
  /\ heap = InitHeap
  /\ ops = <<>>
  /\ nops = 0
  /\ chain = NewChain(UsersColl)
  /\ chains = <<>>
  /\ docMocks = NoHandles
  /\ snap = NoSnapshot
  /\ last = [op |-> "init"]

NextAlias ==
  \/ \E id \in {"alice", "bob"}, p \in {"PA", "PB"}, merge \in BOOLEAN :
        DocSet(GetDocMock(UsersColl, id), p, merge)
  \/ \E id \in {"alice", "bob"} : DocUpdate(GetDocMock(UsersColl, id), "PB")
  \/ \E id \in {"alice", "bob"} : DocDelete(GetDocMock(UsersColl, id))
  \/ \E id \in {"alice", "bob"}, merge \in BOOLEAN :
        BatchSet(GetDocMock(UsersColl, id), "PA", merge)
  \/ \E id \in {"alice", "bob"} : BatchUpdate(GetDocMock(UsersColl, id), "PB")
  \/ \E id \in {"alice", "bob"} : BatchDelete(GetDocMock(UsersColl, id))
  \/ BatchCommit

SpecAlias == InitAlias /\ [][NextAlias]_vars

(* The batch used again and again, with handle writes between its commits. *)
NextReuse ==
  \/ NextBatch
  \/ DocSet(GetDocMock(UsersColl, "alice"), "PA", FALSE)
  \/ DocDelete(GetDocMock(UsersColl, "alice"))

SpecReuse == Init /\ [][NextReuse]_vars

----------------------------------------------------------------------------
(* The mock as a state machine: query chains over one collection *)

(* The most filters on a chain, and the largest limit. *)
MaxFilters == 1

MaxLimit == 2

(* db.collection('items'): the root chain of the collection. *)
Collection ==
  /\ chain' = NewChain(ItemsColl)
  /\ last' = [op |-> "collection"]
  /\ UNCHANGED <<dbData, heap, ops, nops, chains, docMocks, snap>>

(* chain.where(field, op, value): a new chain with the filter appended. *)
Where(field, op, value) ==
  /\ Len(chain.filters) < MaxFilters
  /\ chain' = [chain EXCEPT !.filters =
                  Append(@, [field |-> field, op |-> op, value |-> value])]
  /\ last' = [op |-> "where"]
  /\ UNCHANGED <<dbData, heap, ops, nops, chains, docMocks, snap>>

(* chain.orderBy(field, direction) *)
OrderBy(field, direction) ==
  /\ chain' = [chain EXCEPT !.orderBy = <<[field |-> field, direction |-> direction]>>]
  /\ last' = [op |-> "orderBy"]
  /\ UNCHANGED <<dbData, heap, ops, nops, chains, docMocks, snap>>

(* chain.limit(limitValue) *)
Limit(limitValue) ==
  /\ chain' = [chain EXCEPT !.limit = <<limitValue>>]
  /\ last' = [op |-> "limit"]
  /\ UNCHANGED <<dbData, heap, ops, nops, chains, docMocks, snap>>

(* chain.get() *)
Get ==
  /\ docMocks' = MemoizeAll(docMocks, RefPaths(QueryGet(dbData, heap, chain)))
  /\ last' = [op |-> "query", chain |-> chain, result |-> QueryGet(dbData, heap, chain),
              pre |-> [db |-> dbData, hp |-> heap]]
  /\ UNCHANGED <<dbData, heap, ops, nops, chain, chains, snap>>

OrderValues == {Undefined, Num(1), Num(2), Num(3)}

(* A document with the field order, or without it. *)
OrderDoc(v) == IF v = Undefined THEN EmptyDoc ELSE [order |-> v]

QuerySeeds ==
  { (ItemsColl :> << [id |-> "da", fields |-> OrderDoc(va)],
                     [id |-> "db", fields |-> OrderDoc(vb)],
                     [id |-> "dc", fields |-> OrderDoc(vc)] >>)
    : va \in OrderValues, vb \in OrderValues, vc \in OrderValues }

InitQuery ==
  /\ dbData \in {CreateFirestoreMock(seed) : seed \in QuerySeeds}
  /\ heap = InitHeap
  /\ ops = <<>>
  /\ nops = 0
  /\ chain = NewChain(ItemsColl)
  /\ chains = <<>>
  /\ docMocks = NoHandles
  /\ snap = NoSnapshot
  /\ last = [op |-> "init"]

NextQuery ==
  \/ Collection
  \/ \E op \in {">=", "!="} : Where("order", op, Num(2))
  \/ \E direction \in {"asc", "desc"} : OrderBy("order", direction)
  \/ \E n \in 0..MaxLimit : Limit(n)
  \/ Get

SpecQuery == InitQuery /\ [][NextQuery]_vars

----------------------------------------------------------------------------
(* The mock as a state machine: one filter over values of every kind *)

(* The time values run from -1 (before the epoch) to MaxMs. *)
MaxMs == 1

Instants == (0 - 1)..MaxMs

(* The values a field holds; Undefined stands for a document without the
   field.  Temporal Values are those Timestamp.fromMillis builds. *)
FieldValues ==
  {Undefined, Num(0), Num(1), Str("a"), Str("b"), Str("1970-01-01")}
    \cup {DateV(ms) : ms \in Instants}
    \cup {FromMillis(ms) : ms \in Instants}
    \cup {Arr(<<>>), Arr(<<Num(1)>>), Arr(<<Str("a"), Str("b")>>)}

FilterValues ==
  (FieldValues \ {Undefined}) \cup {Str("da"), Str("db"), Arr(<<Str("da")>>)}

SupportedOps ==
  {"==", "!=", "<", "<=", ">", ">=", "in", "not-in", "array-contains",
   "array-contains-any"}

FilterOps == SupportedOps \cup {"like"}

(* A document with the field v (unless v is Undefined) and with a field
   named id (unless idv is Undefined). *)
FilterDoc(v, idv) ==
  [k \in (IF v = Undefined THEN {} ELSE {"v"}) \cup (IF idv = Undefined THEN {} ELSE {"id"})
     |-> IF k = "v" THEN v ELSE idv]

FilterSeeds ==
  { (ItemsColl :> << [id |-> "da", fields |-> FilterDoc(v, idv)],
                     [id |-> "db", fields |-> [v |-> FromMillis(0)]] >>)
    : v \in FieldValues, idv \in {Undefined, Str("db")} }

InitFilter ==
  /\ dbData \in {CreateFirestoreMock(seed) : seed \in FilterSeeds}
  /\ heap = InitHeap
  /\ ops = <<>>
  /\ nops = 0
  /\ chain = NewChain(ItemsColl)
  /\ chains = <<>>
  /\ docMocks = NoHandles
  /\ snap = NoSnapshot
  /\ last = [op |-> "init"]

(* collection(c).doc(id): the memoized handle of the path. *)
CollectionDoc(h) ==
  /\ docMocks' = Memoize(docMocks, h.path)
  /\ last' = [op |-> "doc", h |-> h, got |-> Instance(Memoize(docMocks, h.path), h.path),
              pre |-> [dm |-> docMocks]]
  /\ UNCHANGED <<dbData, heap, ops, nops, chain, chains, snap>>

(* Chains of one filter: where is called on the root chain only. *)
NextFilter ==
  \/ \E docId \in {"da", "db"} : CollectionDoc(GetDocMock(ItemsColl, docId))
  \/ Collection
  \/ \E field \in {"v", "__name__"}, op \in FilterOps, value \in FilterValues :
        chain.filters = <<>> /\ Where(field, op, value)
  \/ Get

SpecFilter == InitFilter /\ [][NextFilter]_vars

----------------------------------------------------------------------------
(* The mock as a state machine: several chains alive at once *)

(* The most chain objects made. *)
MaxChains == 3

ChainSeeds ==
  { (ItemsColl :> << [id |-> "da", fields |-> OrderDoc(va)],
                     [id |-> "db", fields |-> OrderDoc(Num(2))],
                     [id |-> "dc", fields |-> OrderDoc(vc)] >>)
    : va \in {Num(1), Num(3)}, vc \in {Undefined, Num(3)} }

InitChain ==
  /\ dbData \in {CreateFirestoreMock(seed) : seed \in ChainSeeds}
  /\ heap = InitHeap
  /\ ops = <<>>
  /\ nops = 0
  /\ chain = NewChain(ItemsColl)
  /\ chains = <<>>
  /\ docMocks = NoHandles
  /\ snap = NoSnapshot
  /\ last = [op |-> "init"]

(* db.collection('items') the first time: the collection mock, the root
   chain, is made (later calls return that object). *)
CollectionChain ==
  /\ chains = <<>>
  /\ chains' = <<RootChain(ItemsColl)>>
  /\ last' = [op |-> "collection"]
  /\ UNCHANGED <<dbData, heap, ops, nops, chain, docMocks, snap>>

(* chains[i].where(field, op, value) *)
WhereOn(i, field, op, value) ==
  /\ Len(chains) < MaxChains
  /\ Len(chains[i].options.filters) < MaxFilters
  /\ chains' = ChainWhere(chains, i, [field |-> field, op |-> op, value |-> value])
  /\ last' = [op |-> "where", pre |-> chains]
  /\ UNCHANGED <<dbData, heap, ops, nops, chain, docMocks, snap>>

(* chains[i].orderBy(field, direction) *)
OrderByOn(i, field, direction) ==
  /\ Len(chains) < MaxChains
  /\ chains' = ChainOrderBy(chains, i, [field |-> field, direction |-> direction])
  /\ last' = [op |-> "orderBy", pre |-> chains]
  /\ UNCHANGED <<dbData, heap, ops, nops, chain, docMocks, snap>>

(* chains[i].limit(limitValue) *)
LimitOn(i, limitValue) ==
  /\ Len(chains) < MaxChains
  /\ chains' = ChainLimit(chains, i, limitValue)
  /\ last' = [op |-> "limit", pre |-> chains]
  /\ UNCHANGED <<dbData, heap, ops, nops, chain, docMocks, snap>>

(* chains[i].get() *)
GetOn(i) ==
  /\ last' = [op |-> "query", i |-> i, chain |-> chains[i].options,
              result |-> QueryGet(dbData, heap, chains[i].options),
              pre |-> [db |-> dbData, hp |-> heap]]
  /\ docMocks' = MemoizeAll(docMocks, RefPaths(QueryGet(dbData, heap, chains[i].options)))
  /\ UNCHANGED <<dbData, heap, ops, nops, chain, chains, snap>>

NextChain ==
  \/ CollectionChain
  \/ \E i \in 1..Len(chains), op \in {">=", "!="} : WhereOn(i, "order", op, Num(2))
  \/ \E i \in 1..Len(chains), direction \in {"asc", "desc"} : OrderByOn(i, "order", direction)
  \/ \E i \in 1..Len(chains), n \in 1..MaxLimit : LimitOn(i, n)
  \/ \E i \in 1..Len(chains) : GetOn(i)

SpecChain == InitChain /\ [][NextChain]_vars

(* Reads: what a read leaves in dbData.  handle.get() looks the document up
   with dbData[collectionPath]?.[docId] and assigns nothing; a query get()
   builds its own array from Object.entries(dbData[collectionPath] || {})
   and filters, sorts and slices that array. *)
DocGetCreatesBucket(db, h) == EnsureColl(db, h.coll)

StoreAfterDocGet(db, h) == db

StoreAfterQueryGet(db, options) == db

CollectionAt(collectionPath) ==
  /\ chain' = NewChain(collectionPath)
  /\ last' = [op |-> "collection"]
  /\ UNCHANGED <<dbData, heap, ops, nops, chains, docMocks, snap>>

ReadDoc(h) ==
  /\ dbData' = StoreAfterDocGet(dbData, h)
  /\ last' = [op |-> "get", h |-> h,
              snap |-> [id |-> h.id, exists |-> SnapExists(dbData, h)],
              pre |-> [db |-> dbData, hp |-> heap]]
  /\ docMocks' = Memoize(docMocks, h.path)
  /\ UNCHANGED <<heap, ops, nops, chain, chains, snap>>

ReadQuery ==
  /\ dbData' = StoreAfterQueryGet(dbData, chain)
  /\ last' = [op |-> "query", chain |-> chain, result |-> QueryGet(dbData, heap, chain),
              pre |-> [db |-> dbData, hp |-> heap]]
  /\ docMocks' = MemoizeAll(docMocks, RefPaths(QueryGet(dbData, heap, chain)))
  /\ UNCHANGED <<heap, ops, nops, chain, chains, snap>>

InitRead ==
  /\ dbData \in {CreateFirestoreMock(seed) : seed \in ChainSeeds}
  /\ heap = InitHeap
  /\ ops = <<>>
  /\ nops = 0
  /\ chain = NewChain(ItemsColl)
  /\ chains = <<>>
  /\ docMocks = NoHandles
  /\ snap = NoSnapshot
  /\ last = [op |-> "init"]

NextRead ==
  \/ \E c \in {ItemsColl, UsersColl} : CollectionAt(c)
  \/ \E op \in {">=", "!="} : Where("order", op, Num(2))
  \/ \E direction \in {"asc", "desc"} : OrderBy("order", direction)
  \/ \E n \in 1..MaxLimit : Limit(n)
  \/ ReadQuery
  \/ \E h \in {GetDocMock(ItemsColl, "da"), GetDocMock(ItemsColl, "dx"),
                GetDocMock(UsersColl, "alice")} : ReadDoc(h)
  \/ DocSet(GetDocMock(ItemsColl, "da"), "PA", FALSE)
  \/ DocDelete(GetDocMock(ItemsColl, "db"))

SpecRead == InitRead /\ [][NextRead]_vars

----------------------------------------------------------------------------
(* The mock as a state machine: the caller keeps the seed object *)

(* The caller's objects: the two seed documents SA and SB, the Date object
   D1 that SA's Temporal Value was made from, and the payloads. *)
SeedObjects == {"SA", "SB", "D1"}

SeedHeap ==
  LET dates == [p \in {"D1"} |-> [ms |-> 0]]
  IN  [p \in Payloads \cup SeedObjects |->
         CASE p \in Payloads -> InitHeap[p]
           [] p = "D1" -> dates["D1"]
           [] p = "SA" -> [when |-> FromDate(dates, "D1")]
           [] p = "SB" -> [when |-> FromMillis(1), tags |-> Arr(<<Str("a")>>)]]

(* The seed object { items: { da: SA, db: SB } }. *)
SeedFrom(hp) ==
  (ItemsColl :> << [id |-> "da", fields |-> hp["SA"]],
                   [id |-> "db", fields |-> hp["SB"]] >>)

ItemHandles == {GetDocMock(ItemsColl, "da"), GetDocMock(ItemsColl, "db")}

InitSeed ==
  /\ heap = SeedHeap
  /\ dbData = CreateFirestoreMock(SeedFrom(SeedHeap))
  /\ ops = <<>>
  /\ nops = 0
  /\ chain = NewChain(ItemsColl)
  /\ chains = <<>>
  /\ docMocks = NoHandles
  /\ snap = NoSnapshot
  /\ last = [op |-> "init"]

(* The caller changes a document of its seed object: fields are added,
   changed or removed, an array gets another element. *)
SeedMutate(p, fields) ==
  /\ heap[p] # fields
  /\ heap' = [heap EXCEPT ![p] = fields]
  /\ last' = [op |-> "seedMutate", pre |-> [db |-> dbData, hp |-> heap]]
  /\ UNCHANGED <<dbData, ops, nops, chain, chains, docMocks, snap>>

(* The caller calls setTime(ms) on the Date object its seed's Temporal
   Value was made from. *)
SeedDateSet(ms) ==
  /\ heap["D1"].ms # ms
  /\ heap' = [heap EXCEPT !["D1"] = [ms |-> ms]]
  /\ last' = [op |-> "seedDate", pre |-> [db |-> dbData, hp |-> heap]]
  /\ UNCHANGED <<dbData, ops, nops, chain, chains, docMocks, snap>>

NextSeed ==
  \/ \E fields \in {EmptyDoc, [when |-> FromMillis(1), tags |-> Arr(<<Str("a"), Str("b")>>)]} :
        \E p \in {"SA", "SB"} : SeedMutate(p, fields)
  \/ \E ms \in Instants : SeedDateSet(ms)
  \/ \E h \in ItemHandles : DocGet(h)
  \/ DocSet(GetDocMock(ItemsColl, "da"), "PB", TRUE)
  \/ DocDelete(GetDocMock(ItemsColl, "db"))
  \/ BatchUpdate(GetDocMock(ItemsColl, "da"), "PB")
  \/ BatchCommit

SpecSeed == InitSeed /\ [][NextSeed]_vars

----------------------------------------------------------------------------
(* The mock as a state machine: subcollections *)

Alice == GetDocMock(UsersColl, "alice")

Bob == GetDocMock(UsersColl, "bob")

(* The ids Math.random() gives to added documents. *)
NewIds == {"new-doc-1", "new-doc-2"}

SubSeed ==
  [c \in {UsersColl, PostsColl, <<"users", "bob", "posts">>} |->
     IF c = UsersColl
     THEN << [id |-> "alice", fields |-> SeedDoc], [id |-> "bob", fields |-> SeedDoc] >>
     ELSE IF c = PostsColl
     THEN << [id |-> "first", fields |-> [a |-> Num(1)]] >>
     ELSE << [id |-> "first", fields |-> [a |-> Num(3)]] >>]

InitSub ==
  /\ dbData = CreateFirestoreMock(SubSeed)
  /\ heap = InitHeap
  /\ ops = <<>>
  /\ nops = 0
  /\ chain = NewChain(UsersColl)
  /\ chains = <<>>
  /\ docMocks = NoHandles
  /\ snap = NoSnapshot
  /\ last = [op |-> "init"]

(* collection('users').doc(parent).collection(name).doc(docId).get() *)
SubDocGet(parent, name, docId) ==
  /\ last' = [op |-> "subGet", parent |-> parent, name |-> name, docId |-> docId,
              exists |-> SnapExists(dbData, GetDocMock(SubCollection(parent, name), docId)),
              data |-> SnapView(dbData, heap, GetDocMock(SubCollection(parent, name), docId))]
  /\ docMocks' = Memoize(Memoize(docMocks, parent.path),
                         JoinPath(SubCollection(parent, name), docId))
  /\ UNCHANGED <<dbData, heap, ops, nops, chain, chains, snap>>

(* collection('users').doc(parent).collection(name).get() *)
SubCollectionGet(parent, name) ==
  /\ last' = [op |-> "subQuery", parent |-> parent, name |-> name,
              result |-> QueryGet(dbData, heap, NewChain(SubCollection(parent, name)))]
  /\ docMocks' = MemoizeAll(Memoize(docMocks, parent.path),
                     RefPaths(QueryGet(dbData, heap, NewChain(SubCollection(parent, name)))))
  /\ UNCHANGED <<dbData, heap, ops, nops, chain, chains, snap>>

(* collection(collectionPath).add(data) with the id Math.random() gave. *)
Add(collectionPath, newId, p) ==
  /\ dbData' = CollectionAdd(dbData, collectionPath, newId, p)
  /\ last' = [op |-> "add", h |-> GetDocMock(collectionPath, newId), p |-> p,
              pre |-> [db |-> dbData, hp |-> heap]]
  /\ docMocks' = Memoize(docMocks, JoinPath(collectionPath, newId))
  /\ UNCHANGED <<heap, ops, nops, chain, chains, snap>>

NextSub ==
  \/ \E parent \in {Alice, Bob} : SubDocGet(parent, "posts", "first")
  \/ \E parent \in {Alice, Bob} : SubCollectionGet(parent, "posts")
  \/ \E docId \in {"first", "second"}, merge \in BOOLEAN :
        DocSet(GetDocMock(SubCollection(Alice, "posts"), docId), "PB", merge)
  \/ DocUpdate(GetDocMock(SubCollection(Alice, "posts"), "first"), "PA")
  \/ DocDelete(GetDocMock(SubCollection(Alice, "posts"), "first"))
  \/ \E newId \in NewIds : Add(SubCollection(Alice, "posts"), newId, "PA")
  \/ DocSet(GetDocMock(SubCollection(Bob, "notes"), "first"), "PA", FALSE)

SpecSub == InitSub /\ [][NextSub]_vars

----------------------------------------------------------------------------
(* The mock as a state machine: db.doc(path) *)

(* A path string is its pieces in turn: "/" or a name without a slash (no
   two names side by side).  The longest path has MaxPathLen pieces. *)
MaxPathLen == 3

PathPieces == {"users", "alice", "/"}

PathStrings ==
  { path \in UNION {[1..n -> PathPieces] : n \in 0..MaxPathLen} :
      \A i \in 1..(Len(path) - 1) : path[i] = "/" \/ path[i + 1] = "/" }

(* path.split('/') *)
RECURSIVE Split(_)
Split(path) ==
  IF path = <<>> THEN <<"">>
  ELSE IF Head(path) = "/" THEN <<"">> \o Split(Tail(path))
  ELSE IF Len(path) = 1 THEN <<Head(path)>>
  ELSE <<Head(path)>> \o Split(SubSeq(path, 3, Len(path)))

(* parts[i] *)
Part(parts, i) == IF i <= Len(parts) THEN Str(parts[i]) ELSE Undefined

(* A segment inside a template literal. *)
SegmentString(part) == IF part.t = "undefined" THEN "undefined" ELSE part.v

(* A check that looks at the collection segment only. *)
InvalidCollectionOnly(collectionPath, docId) == Falsy(collectionPath)

(* !collectionPath || !docId *)
InvalidPath(collectionPath, docId) == Falsy(collectionPath) \/ Falsy(docId)

(* db.doc(path): throws, or returns getDocMock(parts[0], parts[1]). *)
DbDoc(path) ==
  LET collectionPath == Part(Split(path), 1)
      docId == Part(Split(path), 2)
      h == GetDocMock(<<SegmentString(collectionPath)>>, SegmentString(docId))
  IN  IF InvalidPath(collectionPath, docId)
      THEN /\ last' = [op |-> "dbDoc", path |-> path, outcome |-> "throws",
                       pre |-> [db |-> dbData, dm |-> docMocks]]
           /\ UNCHANGED <<dbData, heap, ops, nops, chain, chains, docMocks, snap>>
      ELSE /\ docMocks' = Memoize(docMocks, h.path)
           /\ last' = [op |-> "dbDoc", path |-> path, outcome |-> "handle", h |-> h,
                       got |-> Instance(Memoize(docMocks, h.path), h.path),
                       pre |-> [db |-> dbData, dm |-> docMocks]]
           /\ UNCHANGED <<dbData, heap, ops, nops, chain, chains, snap>>

(* A write through the handle db.doc(path) returned. *)
DbDocSet ==
  /\ last.op = "dbDoc"
  /\ last.outcome = "handle"
  /\ DocSet(last.h, "PA", FALSE)

NextPath ==
  \/ \E path \in PathStrings : DbDoc(path)
  \/ DbDocSet

SpecPath == Init /\ [][NextPath]_vars

(* Paths with more than two segments, and the same documents reached
   through collection(..).doc(..).collection(..).doc(..). *)
DeepPaths ==
  { <<"users", "/", "alice">>,
    <<"users", "/", "bob">>,
    <<"users", "/", "alice", "/", "posts", "/", "first">>,
    <<"users", "/", "bob", "/", "posts", "/", "first">>,
    <<"users", "/", "alice", "/">>,
    <<"users">>,
    <<"/", "alice">> }

(* collection(parts[1]).doc(parts[2]).collection(parts[3]).doc(parts[4])... *)
RECURSIVE ChainDoc(_)
ChainDoc(parts) ==
  IF Len(parts) = 2 THEN GetDocMock(<<parts[1]>>, parts[2])
  ELSE GetDocMock(SubCollection(ChainDoc(SubSeq(parts, 1, Len(parts) - 2)),
                                parts[Len(parts) - 1]),
                  parts[Len(parts)])

(* The handles on the way are made, and memoized, one after the other. *)
ChainedDoc(parts) ==
  /\ docMocks' = MemoizeAll(docMocks,
                     [k \in 1..(Len(parts) \div 2) |-> ChainDoc(SubSeq(parts, 1, 2 * k)).path])
  /\ last' = [op |-> "chainDoc", parts |-> parts, h |-> ChainDoc(parts),
              pre |-> [db |-> dbData, dm |-> docMocks]]
  /\ UNCHANGED <<dbData, heap, ops, nops, chain, chains, snap>>

(* A write through the handle db.doc(path) returned, then a read of it. *)
DbDocGet ==
  /\ last.op \in {"dbDoc", "chainDoc"}
  /\ last.op = "dbDoc" => last.outcome = "handle"
  /\ DocGet(last.h)

NextDeep ==
  \/ \E path \in DeepPaths : DbDoc(path)
  \/ \E parts \in {<<"users", "alice">>, <<"users", "alice", "posts", "first">>} :
        ChainedDoc(parts)
  \/ DbDocSet
  \/ DbDocGet

SpecDeep == Init /\ [][NextDeep]_vars

----------------------------------------------------------------------------
(* The mock as a state machine: a document snapshot kept by the caller *)

(* handle.get(), the caller keeping the snapshot: exists is computed by
   get(); data is a function that reads dbData when it is called. *)
SnapshotGet(h) ==
  /\ snap' = [held |-> TRUE, h |-> h, id |-> h.id,
              exists |-> SnapExists(dbData, h),
              at |-> [db |-> dbData, hp |-> heap]]
  /\ last' = [op |-> "get", h |-> h,
              snap |-> [id |-> h.id, exists |-> SnapExists(dbData, h)],
              pre |-> [db |-> dbData, hp |-> heap]]
  /\ docMocks' = Memoize(docMocks, h.path)
  /\ UNCHANGED <<dbData, heap, ops, nops, chain, chains>>

(* snapshot.data() called now. *)
SnapshotData(db, hp, snapshot) == SnapView(db, hp, snapshot.h)

NextSnap ==
  \/ \E h \in {Alice, Bob} : SnapshotGet(h)
  \/ \E p \in {"PA", "PB"}, merge \in BOOLEAN : DocSet(Alice, p, merge)
  \/ DocUpdate(Alice, "PB")
  \/ DocDelete(Alice)
  \/ BatchUpdate(Alice, "PB")
  \/ BatchCommit

SpecSnap == Init /\ [][NextSnap]_vars

----------------------------------------------------------------------------
(* Two mocks made from one seed object *)

(* The heap with the second mock's dbData in it, under "mock2". *)
TwoHeap ==
  [p \in DOMAIN SeedHeap \cup {"mock2"} |->
     IF p = "mock2" THEN CreateFirestoreMock(SeedFrom(SeedHeap)) ELSE SeedHeap[p]]

(* One dbData for every mock. *)
OneStoreForAll(db, hp) == db

(* let dbData inside createFirestoreMock: the second mock's own Store. *)
SecondStore(db, hp) == hp["mock2"]

InitTwo ==
  /\ heap = TwoHeap
  /\ dbData = CreateFirestoreMock(SeedFrom(SeedHeap))
  /\ ops = <<>>
  /\ nops = 0
  /\ chain = NewChain(ItemsColl)
  /\ chains = <<>>
  /\ docMocks = NoHandles
  /\ snap = NoSnapshot
  /\ last = [op |-> "init"]

(* handle.get() on the second mock. *)
OtherDocGet(h) ==
  /\ last' = [op |-> "otherGet", h |-> h,
              exists |-> SnapExists(SecondStore(dbData, heap), h),
              data |-> SnapView(SecondStore(dbData, heap), heap, h)]
  /\ UNCHANGED <<dbData, heap, ops, nops, chain, chains, docMocks, snap>>

(* A query get() on the second mock. *)
OtherQueryGet(options) ==
  /\ last' = [op |-> "otherQuery", chain |-> options,
              result |-> QueryGet(SecondStore(dbData, heap), heap, options)]
  /\ UNCHANGED <<dbData, heap, ops, nops, chain, chains, docMocks, snap>>

(* Writes through the first mock, reads through the second. *)
NextTwo ==
  \/ \E h \in ItemHandles : OtherDocGet(h)
  \/ \E options \in {NewChain(ItemsColl),
                      [NewChain(ItemsColl) EXCEPT
                         !.filters = <<[field |-> "when", op |-> "<=", value |-> DateV(0)]>>]} :
        OtherQueryGet(options)
  \/ \E merge \in BOOLEAN : DocSet(GetDocMock(ItemsColl, "da"), "PB", merge)
  \/ DocUpdate(GetDocMock(ItemsColl, "da"), "PA")
  \/ DocDelete(GetDocMock(ItemsColl, "db"))
  \/ \E newId \in NewIds : Add(ItemsColl, newId, "PA")
  \/ BatchSet(GetDocMock(ItemsColl, "db"), "PA", FALSE)
  \/ BatchUpdate(GetDocMock(ItemsColl, "da"), "PB")
  \/ BatchCommit

SpecTwo == InitTwo /\ [][NextTwo]_vars

----------------------------------------------------------------------------
(* Callers that do not await: every operation is a call, which runs to its
   return, and a promise that settles later *)

(* The most calls issued. *)
MaxCalls == 3

(* The calls of the callers: handle writes, add, enqueues on the batch and
   commit. *)
AsyncCalls ==
  { [kind |-> "set", h |-> Alice, p |-> "PA", merge |-> FALSE],
    [kind |-> "set", h |-> Alice, p |-> "PB", merge |-> TRUE],
    [kind |-> "update", h |-> Alice, p |-> "PB"],
    [kind |-> "delete", h |-> Alice],
    [kind |-> "add", coll |-> UsersColl, id |-> "new-doc-1", p |-> "PA"],
    [kind |-> "enqueue", intent |-> SetOp(Bob, "PA", FALSE)],
    [kind |-> "enqueue", intent |-> UpdateOp(Bob, "PB")],
    [kind |-> "commit"] }

(* What the body of the called function does, up to its return; st holds
   dbData, the heap and the batch's queue. *)
ApplyCall(st, c) ==
  CASE c.kind = "set" -> [st EXCEPT !.db = HandleSet(st.db, st.hp, c.h, c.p, c.merge)]
    [] c.kind = "update" -> [st EXCEPT !.db = HandleUpdate(st.db, st.hp, c.h, c.p)]
    [] c.kind = "delete" -> [st EXCEPT !.db = HandleDelete(st.db, c.h)]
    [] c.kind = "add" -> [st EXCEPT !.db = CollectionAdd(st.db, c.coll, c.id, c.p)]
    [] c.kind = "enqueue" -> [st EXCEPT !.ops = Append(st.ops, c.intent)]
    [] c.kind = "commit" ->
         [db |-> CommitAll([db |-> st.db, hp |-> st.hp], st.ops).db,
          hp |-> CommitAll([db |-> st.db, hp |-> st.hp], st.ops).hp,
          ops |-> ClearOperations(st.ops)]

(* A mock whose functions only make the promise, the body running when the
   promise is awaited. *)
BodyRunsWhenAwaited(before, after) == before

(* mockImplementation(() => { body; return Promise.resolve(); }): the body
   has run when the call returns. *)
BodyRunsInCall(before, after) == after

InitAsync ==
  /\ dbData = CreateFirestoreMock(SeedOf({Alice, Bob}))
  /\ heap = InitHeap
  /\ ops = <<>>
  /\ nops = 0
  /\ chain = NewChain(UsersColl)
  /\ chains = <<>>
  /\ docMocks = NoHandles
  /\ snap = NoSnapshot
  /\ last = [op |-> "init", log |-> <<>>, pending |-> 0,
             init |-> [db |-> dbData, hp |-> heap, ops |-> <<>>]]

(* A caller calls c and does not await the promise it gets. *)
AsyncCall(c) ==
  LET before == [db |-> dbData, hp |-> heap, ops |-> ops]
      after == BodyRunsInCall(before, ApplyCall(before, c))
  IN  /\ Len(last.log) < MaxCalls
      /\ dbData' = after.db
      /\ heap' = after.hp
      /\ ops' = after.ops
      /\ last' = [op |-> "call", log |-> Append(last.log, c),
                  pending |-> last.pending + 1, init |-> last.init]
      /\ UNCHANGED <<nops, chain, chains, docMocks, snap>>

(* A promise settles: Promise.resolve() carries nothing to do. *)
AsyncSettle ==
  /\ last.pending > 0
  /\ last' = [op |-> "settle", log |-> last.log,
              pending |-> last.pending - 1, init |-> last.init]
  /\ UNCHANGED <<dbData, heap, ops, nops, chain, chains, docMocks, snap>>

(* A caller calls handle.get() and reads the snapshot at once. *)
AsyncRead(h) ==
  /\ last' = [op |-> "read", log |-> last.log, pending |-> last.pending,
              init |-> last.init, h |-> h,
              exists |-> SnapExists(dbData, h), data |-> SnapView(dbData, heap, h)]
  /\ UNCHANGED <<dbData, heap, ops, nops, chain, chains, docMocks, snap>>

NextAsync ==
  \/ \E c \in AsyncCalls : AsyncCall(c)
  \/ AsyncSettle
  \/ \E h \in {Alice, Bob} : AsyncRead(h)

SpecAsync == InitAsync /\ [][NextAsync]_vars

----------------------------------------------------------------------------
(* deepCloneWithTimestamp on one value, beside a running clock *)

(* The caller's heap: the clock, the Date object D1 and the value X. *)
CloneHeap(x) ==
  [p \in {"clock", "D1", "X"} |->
     CASE p = "clock" -> [ms |-> 0 - 1]
       [] p = "D1" -> [ms |-> 0]
       [] p = "X" -> [v |-> x]]

(* Values without nesting: Temporal Values by each construction path and
   in the raw shape, a native date, a number. *)
CloneLeaves ==
  {FromMillis(ms) : ms \in Instants}
    \cup {FromDate(CloneHeap(Undefined), "D1"), Now(CloneHeap(Undefined))}
    \cup {RawTs(sec, ns) : sec \in {0 - 1, 1}, ns \in {0, 999000000}}
    \cup {DateV(0), Num(1)}

(* The objects cloned: a leaf as a field, in an array, in a nested object,
   in an object of an array of a nested object. *)
CloneInputs ==
  {Obj([myDate |-> x]) : x \in CloneLeaves}
    \cup {Obj([list |-> Arr(<<x>>)]) : x \in CloneLeaves}
    \cup {Obj([nested |-> Obj([myDate |-> x])]) : x \in CloneLeaves}
    \cup {Obj([deep |-> Obj([list |-> Arr(<<Num(1), Obj([myDate |-> x])>>)])]) : x \in CloneLeaves}

InitClone ==
  /\ heap \in {CloneHeap(x) : x \in CloneInputs}
  /\ dbData = CreateFirestoreMock(<<>>)
  /\ ops = <<>>
  /\ nops = 0
  /\ chain = NewChain(ItemsColl)
  /\ chains = <<>>
  /\ docMocks = NoHandles
  /\ snap = NoSnapshot
  /\ last = [op |-> "init"]

(* deepCloneWithTimestamp(X): the caller keeps X and the clone. *)
DeepClone ==
  /\ last.op = "init"
  /\ last' = [op |-> "clone", input |-> heap["X"].v,
              output |-> DeepCloneValue(ReadClock(heap, heap["X"].v))]
  /\ UNCHANGED <<dbData, heap, ops, nops, chain, chains, docMocks, snap>>

(* Time passes. *)
Tick ==
  /\ heap["clock"].ms < MaxMs
  /\ heap' = [heap EXCEPT !["clock"] = [ms |-> heap["clock"].ms + 1]]
  /\ UNCHANGED <<dbData, ops, nops, chain, chains, docMocks, snap, last>>

NextClone ==
  \/ DeepClone
  \/ Tick

SpecClone == InitClone /\ [][NextClone]_vars

----------------------------------------------------------------------------
(* What the contract says an intent does to the document it addresses,     *)
(* stated on the document's fields (Undefined: the document is absent).    *)

IntentOn(fields, op, hp) ==
  CASE op.type = "delete" -> Undefined
    [] op.type = "update" ->
         IF fields = Undefined THEN Undefined
         ELSE [k \in DOMAIN fields \cup DOMAIN hp[op.data] |->
                 IF k \in DOMAIN hp[op.data] THEN hp[op.data][k] ELSE fields[k]]
    [] op.type = "set" ->
         IF op.merge /\ fields # Undefined
         THEN [k \in DOMAIN fields \cup DOMAIN hp[op.data] |->
                 IF k \in DOMAIN hp[op.data] THEN hp[op.data][k] ELSE fields[k]]
         ELSE hp[op.data]

(* The intents of queue that address handle h, applied in queue order to
   the fields the document of h holds. *)
RECURSIVE IntentsOn(_, _, _, _)
IntentsOn(fields, queue, h, hp) ==
  IF queue = <<>> THEN fields
  ELSE IntentsOn(IF Head(queue).ref = h THEN IntentOn(fields, Head(queue), hp) ELSE fields,
                 Tail(queue), h, hp)

Targets(queue) == {queue[i].ref : i \in 1..Len(queue)}

IntentsAt(queue, h) == {i \in 1..Len(queue) : queue[i].ref = h}

IsSubHandle(h) == Len(h.path) > 2

(* Every document of the model's universe as a read through its handle sees it. *)
View(db, hp) == [h \in Handles |-> SnapData(db, hp, h)]

Expected(pre, queue) ==
  [h \in Handles |-> IntentsOn(SnapData(pre.db, pre.hp, h), queue, h, pre.hp)]

----------------------------------------------------------------------------
(* C1: enqueueing on the batch leaves the Store, and so every read, as it
   was; after one commit the document of every queued intent shows the
   intents' effect (a queued delete leaves its document absent, a queued
   update leaves its document updated). *)
C1_EnqueueThenCommitVisible ==
  /\ last.op = "enqueue" =>
        /\ dbData = last.pre.db
        /\ heap = last.pre.hp
        /\ \A h \in Handles :
              /\ SnapExists(dbData, h) = SnapExists(last.pre.db, h)
              /\ SnapData(dbData, heap, h) = SnapData(last.pre.db, last.pre.hp, h)
  /\ last.op = "commit" =>
        \A h \in Targets(last.queue) :
           SnapData(dbData, heap, h) = Expected(last.pre, last.queue)[h]

(* C2: a commit of two or more intents on one document leaves the Store as
   applying the intents one after another, in enqueue order, leaves it. *)
C2_CommitInEnqueueOrder ==
  (last.op = "commit" /\ \E h \in Handles : Cardinality(IntentsAt(last.queue, h)) >= 2)
    => View(dbData, heap) = Expected(last.pre, last.queue)

(* C3: intents queued against a subcollection document's handle are
   applied on commit to that document's slot; the parent document and
   every other slot stay as they were. *)
C3_SubcollectionIntentHitsItsSlot ==
  (last.op = "commit" /\ last.queue # <<>> /\ \A h \in Targets(last.queue) : IsSubHandle(h))
    => /\ \A h \in Targets(last.queue) :
            SnapData(dbData, heap, h) = Expected(last.pre, last.queue)[h]
       /\ \A h \in Handles \ Targets(last.queue) :
            SnapData(dbData, heap, h) = SnapData(last.pre.db, last.pre.hp, h)

(* C6: an update of a document that does not exist, through its handle or
   as a committed batch intent, changes nothing in the Store; an update of
   an existing document through its handle shallow-merges the payload over
   the current fields. *)
C6_UpdateOnMissingIsNoOp ==
  /\ last.op = "update" =>
        IF SnapExists(last.pre.db, last.h)
        THEN SnapData(dbData, heap, last.h)
               = IntentOn(SnapData(last.pre.db, last.pre.hp, last.h),
                          UpdateOp(last.h, last.p), last.pre.hp)
        ELSE dbData = last.pre.db /\ heap = last.pre.hp
  /\ (/\ last.op = "commit"
      /\ \A i \in 1..Len(last.queue) :
            /\ last.queue[i].type = "update"
            /\ ~SnapExists(last.pre.db, last.queue[i].ref))
       => /\ dbData = last.pre.db
          /\ heap = last.pre.hp
          /\ \A h \in Handles : ~SnapExists(last.pre.db, h) => ~SnapExists(dbData, h)

----------------------------------------------------------------------------
(* Properties of the document handles (specification Spec) *)

(* The document a handle held before the last operation. *)
PreObj == Lookup(last.pre.db, last.h.coll, last.h.id)

(* C4: round trip.  After h.set(D) without merge, h.get() has exists = true
   and data() equal to D, for every handle, every store state and every D,
   the empty mapping and a collection that did not exist included. *)
C4_SetThenGetRoundTrip ==
  (last.op = "set" /\ ~last.merge) =>
     /\ SnapExists(dbData, last.h)
     /\ SnapData(dbData, heap, last.h) = last.pre.hp[last.p]

(* The empty mapping has been set under a collection that did not exist. *)
C4_Witness ==
  /\ last.op = "set" /\ ~last.merge /\ last.p = "P0"
  /\ last.h.coll \notin DOMAIN last.pre.db
  /\ SnapExists(dbData, last.h)

(* C5: merge law.  set(B, {merge: true}) over a document with fields A
   leaves the keys of A and of B, B's value on every key of B and A's value
   on the others; set(B) without merge leaves exactly B; a merge on a
   missing document leaves exactly B. *)
C5_MergeLaw ==
  last.op = "set" =>
    LET B == last.pre.hp[last.p]
        now == SnapData(dbData, heap, last.h)
    IN  /\ SnapExists(dbData, last.h)
        /\ IF last.merge /\ Truthy(PreObj)
           THEN LET A == FieldsOf(last.pre.hp, PreObj)
                IN  /\ DOMAIN now = DOMAIN A \cup DOMAIN B
                    /\ \A k \in DOMAIN B : now[k] = B[k]
                    /\ \A k \in DOMAIN A \ DOMAIN B : now[k] = A[k]
           ELSE /\ DOMAIN now = DOMAIN B
                /\ \A k \in DOMAIN B : now[k] = B[k]

(* {b: 2} has been merged over a document set as {a: 1, b: 1}. *)
C5_Witness ==
  /\ last.op = "set" /\ last.merge /\ last.p = "PB"
  /\ PreObj = Ref("PA")
  /\ SnapData(dbData, heap, last.h) = [a |-> Num(1), b |-> Num(2)]

(* The chains a deleted document is looked for in. *)
ChainsOver(collectionPath, docId) ==
  { NewChain(collectionPath),
    [NewChain(collectionPath) EXCEPT
       !.filters = <<[field |-> "__name__", op |-> "==", value |-> Str(docId)]>>],
    [NewChain(collectionPath) EXCEPT
       !.filters = <<[field |-> "a", op |-> "!=", value |-> Str("a")]>>],
    [NewChain(collectionPath) EXCEPT
       !.orderBy = <<[field |-> "a", direction |-> "desc"]>>, !.limit = <<1>>] }

StoredIn(snapshot, docId) ==
  \E i \in 1..Len(snapshot.docs) : snapshot.docs[i].key = docId

(* C7: after h.delete(), h.get() has exists = false and data() undefined,
   no query of the collection returns the document, and a delete on a
   missing document changes nothing. *)
C7_DeleteThenGone ==
  last.op = "delete" =>
     /\ ~SnapExists(dbData, last.h)
     /\ SnapData(dbData, heap, last.h) = Undefined
     /\ \A q \in ChainsOver(last.h.coll, last.h.id) :
           ~StoredIn(QueryGet(dbData, heap, q), last.h.id)
     /\ ~Truthy(PreObj) => (dbData = last.pre.db /\ heap = last.pre.hp)

(* A stored document, which the queries of its collection returned, has
   been deleted. *)
C7_Witness ==
  /\ last.op = "delete" /\ Truthy(PreObj)
  /\ \A q \in ChainsOver(last.h.coll, last.h.id) \ {[NewChain(last.h.coll) EXCEPT
          !.orderBy = <<[field |-> "a", direction |-> "desc"]>>, !.limit = <<1>>]} :
        StoredIn(QueryGet(last.pre.db, last.pre.hp, q), last.h.id)
  /\ ~SnapExists(dbData, last.h)

----------------------------------------------------------------------------
(* Properties of the query engine (specifications SpecQuery, SpecFilter) *)

(* The stored entries of the collection the last query ran over. *)
PreBucket ==
  IF last.chain.coll \in DOMAIN last.pre.db THEN last.pre.db[last.chain.coll] ELSE <<>>

PreFields(i) == FieldsOf(last.pre.hp, PreBucket[i].obj)

(* The stored document i satisfies every filter of the last query. *)
Survives(i) ==
  \A j \in 1..Len(last.chain.filters) :
     Matches(Spread([id |-> Str(PreBucket[i].id)], PreFields(i)), last.chain.filters[j])

(* Under the last query's ordering, x comes strictly before y. *)
SortsBefore(x, y) ==
  IF last.chain.orderBy[1].direction = "desc" THEN JsGt(x, y) ELSE JsLt(x, y)

OrderField(i) == FieldValue(PreFields(i), last.chain.orderBy[1].field)

Returned(i) == StoredIn(last.result, PreBucket[i].id)

Min(a, b) == IF a < b THEN a ELSE b

(* C8: filters, then ordering, then limit.  A chain with an ordering and a
   limit n returns the first n documents of the filtered set in sorted
   order: n of them (or all, if fewer survive), each one a survivor, none
   placed after a document it sorts before, and no survivor left out that
   sorts before a returned one. *)
C8_FirstNOfSorted ==
  (last.op = "query" /\ last.chain.orderBy # <<>> /\ last.chain.limit # <<>>) =>
    LET S == {i \in 1..Len(PreBucket) : Survives(i)}
        Pos(k) == CHOOSE i \in 1..Len(PreBucket) : PreBucket[i].id = last.result.docs[k].key
    IN  /\ last.result.size = Min(last.chain.limit[1], Cardinality(S))
        /\ \A i \in 1..Len(PreBucket) : Returned(i) => i \in S
        /\ \A k1, k2 \in 1..last.result.size :
              k1 < k2 => ~SortsBefore(OrderField(Pos(k2)), OrderField(Pos(k1)))
        /\ \A i, j \in S :
              (Returned(i) /\ ~Returned(j)) => ~SortsBefore(OrderField(j), OrderField(i))

(* The instant of a native date or of a Temporal Value (toMillis). *)
Instant(v) == IF v.t = "date" THEN v.ms ELSE v.date

Stands(op, a, b) ==
  CASE op = "==" -> a = b
    [] op = "<" -> a < b
    [] op = "<=" -> ~(b < a)
    [] op = ">" -> b < a
    [] op = ">=" -> ~(a < b)

(* C9: date-aware comparison.  A filter with ==, <, <=, > or >= whose
   value is a native date or a Temporal Value keeps, of the documents
   whose field is a Temporal Value, exactly those whose instant stands in
   that relation to the value's instant. *)
C9_DateAwareComparison ==
  (/\ last.op = "query"
   /\ Len(last.chain.filters) = 1
   /\ last.chain.filters[1].field = "v"
   /\ last.chain.filters[1].op \in {"==", "<", "<=", ">", ">="}
   /\ last.chain.filters[1].value.t \in {"date", "ts"}) =>
    \A i \in 1..Len(PreBucket) :
       FieldValue(PreFields(i), "v").t = "ts" =>
         (Returned(i) <=> Stands(last.chain.filters[1].op,
                                 Instant(PreFields(i)["v"]),
                                 Instant(last.chain.filters[1].value)))

(* where('v', '<=', the date of instant 0) over Temporal Values of the
   instants 1 and 0 has kept the second and dropped the first. *)
C9_Witness ==
  /\ last.op = "query"
  /\ last.chain.filters = <<[field |-> "v", op |-> "<=", value |-> DateV(0)]>>
  /\ PreFields(1) = [v |-> FromMillis(1)]
  /\ PreFields(2) = [v |-> FromMillis(0)]
  /\ last.result.size = 1
  /\ last.result.docs[1].key = "db"

(* A value the contract reads as a point in time: a native date, a
   Temporal Value, a string that parses as a date. *)
TimeLike(v) ==
  \/ v.t \in {"date", "ts"}
  \/ v.t = "str" /\ ~DateParse(v.v).nan

(* The reference meaning of the ten operators on raw values. *)
RefMeaning(op, x, y) ==
  CASE op = "==" -> StrictEq(x, y)
    [] op = "!=" -> ~StrictEq(x, y)
    [] op = "<" -> JsLt(x, y)
    [] op = "<=" -> JsLe(x, y)
    [] op = ">" -> JsGt(x, y)
    [] op = ">=" -> JsGe(x, y)
    [] op = "in" -> y.t = "arr" /\ \E n \in 1..Len(y.v) : StrictEq(y.v[n], x)
    [] op = "not-in" -> ~(y.t = "arr" /\ \E n \in 1..Len(y.v) : StrictEq(y.v[n], x))
    [] op = "array-contains" -> x.t = "arr" /\ \E n \in 1..Len(x.v) : StrictEq(x.v[n], y)
    [] op = "array-contains-any" ->
         /\ x.t = "arr" /\ y.t = "arr"
         /\ \E m \in 1..Len(x.v), n \in 1..Len(y.v) : StrictEq(x.v[m], y.v[n])

(* What a filter on the stored document i compares: the id the document
   is stored under for __name__, the field otherwise. *)
Compared(i, field) ==
  IF field = "__name__" THEN Str(PreBucket[i].id) ELSE FieldValue(PreFields(i), field)

(* C10: when the document's value and the filter's value are not both
   points in time, each of the ten operators keeps exactly the documents
   that satisfy its reference meaning, and __name__ compares the id the
   document is stored under. *)
C10_OperatorsKeepReferenceMeaning ==
  (/\ last.op = "query"
   /\ Len(last.chain.filters) = 1
   /\ last.chain.filters[1].op \in SupportedOps) =>
    \A i \in 1..Len(PreBucket) :
       LET f == last.chain.filters[1]
       IN  ~(TimeLike(Compared(i, f.field)) /\ TimeLike(f.value)) =>
              (Returned(i) <=> RefMeaning(f.op, Compared(i, f.field), f.value))

(* C11: an unrecognized operator fails closed.  A chain with a filter whose
   operator is none of the ten returns a snapshot (get() has no failing
   path) of size 0 with empty = true, whatever the store, the field and
   the value. *)
C11_UnknownOperatorFailsClosed ==
  (/\ last.op = "query"
   /\ \E j \in 1..Len(last.chain.filters) : last.chain.filters[j].op \notin SupportedOps) =>
     /\ last.result.size = 0
     /\ last.result.empty
     /\ last.result.docs = <<>>

(* where('v', 'like', 1) has run over a collection of two documents, one of
   which holds v = 1. *)
C11_Witness ==
  /\ last.op = "query"
  /\ last.chain.filters = <<[field |-> "v", op |-> "like", value |-> Num(1)]>>
  /\ Len(PreBucket) = 2
  /\ PreFields(1) = [v |-> Num(1)]
  /\ last.result.empty

----------------------------------------------------------------------------
(* Properties of chains as values (specification SpecChain) *)

(* The options a chain should carry by the calls that led to it: where
   adds its filter after the earlier ones, orderBy and limit put theirs in
   place of an earlier one, everything else is kept. *)
RECURSIVE Directives(_, _)
Directives(cs, i) ==
  IF cs[i].madeFrom = 0 THEN NewChain(ItemsColl)
  ELSE LET before == Directives(cs, cs[i].madeFrom)
           call == cs[i].call
       IN  CASE call.fn = "where" ->
                  [before EXCEPT !.filters = before.filters \o <<call.arg>>]
             [] call.fn = "orderBy" -> [before EXCEPT !.orderBy = <<call.arg>>]
             [] call.fn = "limit" -> [before EXCEPT !.limit = <<call.arg>>]

(* C12: chains are immutable values.  where, orderBy and limit make a new
   chain and leave every chain made before as it was, so every chain
   carries the directives of the calls that led to it and no others, and
   get() on a chain applies exactly those: without ordering and limit it
   returns the documents that satisfy every filter of its own calls. *)
C12_ChainsAreValues ==
  /\ \A i \in 1..Len(chains) : chains[i].options = Directives(chains, i)
  /\ (last.op \in {"where", "orderBy", "limit"}) =>
        /\ Len(chains) = Len(last.pre) + 1
        /\ \A i \in 1..Len(last.pre) : chains[i] = last.pre[i]
  /\ (last.op = "query" /\ "i" \in DOMAIN last) =>
        /\ last.result = QueryGet(last.pre.db, last.pre.hp, Directives(chains, last.i))
        /\ (Directives(chains, last.i).orderBy = <<>> /\ Directives(chains, last.i).limit = <<>>) =>
              \A d \in 1..Len(PreBucket) :
                 Returned(d) <=>
                   \A j \in 1..Len(Directives(chains, last.i).filters) :
                      Matches(Spread([id |-> Str(PreBucket[d].id)], PreFields(d)),
                              Directives(chains, last.i).filters[j])

(* q1 = q.where(order >= 2) and q2 = q.where(order != 2) have been made
   from the root q, and q.get() has returned all three documents. *)
C12_Witness ==
  /\ Len(chains) = 3
  /\ chains[2].madeFrom = 1 /\ chains[2].call.fn = "where" /\ chains[2].call.arg.op = ">="
  /\ chains[3].madeFrom = 1 /\ chains[3].call.fn = "where" /\ chains[3].call.arg.op = "!="
  /\ last.op = "query" /\ "i" \in DOMAIN last /\ last.i = 1
  /\ last.result.size = 3

----------------------------------------------------------------------------
(* Properties of the handles' identity (specification SpecFilter) *)

(* C13: reference stability.  One handle object is made for a path and
   every later collection(p).doc(id) returns it; the ref of a query-result
   entry is the handle object of the path of the collection and the id the
   entry's document is stored under. *)
C13_ReferenceStability ==
  /\ \A path \in DOMAIN docMocks : docMocks[path] = 1
  /\ last.op = "doc" =>
        /\ last.got = Instance(docMocks, last.h.path)
        /\ last.h.path \in DOMAIN last.pre.dm =>
              last.got = Instance(last.pre.dm, last.h.path)
  /\ last.op = "query" =>
        \A k \in 1..Len(last.result.docs) :
           /\ last.result.docs[k].ref.path \in DOMAIN docMocks
           /\ Instance(docMocks, last.result.docs[k].ref.path)
                = [path |-> JoinPath(last.chain.coll, last.result.docs[k].key), serial |-> 1]

----------------------------------------------------------------------------
(* Properties of the seed's clone (specification SpecSeed) *)

(* The chains the store is read through beside the handles. *)
SeedProbes ==
  { NewChain(ItemsColl),
    [NewChain(ItemsColl) EXCEPT
       !.filters = <<[field |-> "when", op |-> "<=", value |-> DateV(0)]>>] }

(* C14: seed independence.  A change the caller makes to its seed object
   after construction changes no get() of a handle and no get() of a
   query, and no write through the mock changes the seed object. *)
C14_SeedIndependence ==
  /\ last.op \in {"seedMutate", "seedDate"} =>
        /\ \A h \in ItemHandles :
              /\ SnapExists(dbData, h) = SnapExists(last.pre.db, h)
              /\ SnapView(dbData, heap, h) = SnapView(last.pre.db, last.pre.hp, h)
        /\ \A q \in SeedProbes :
              QueryGet(dbData, heap, q) = QueryGet(last.pre.db, last.pre.hp, q)
  /\ last.op \in {"set", "update", "delete", "commit"} =>
        \A p \in SeedObjects : heap[p] = last.pre.hp[p]

(* C15: deep-cloning preserves Temporal Values at any nesting depth: where
   the original holds a Temporal Value the clone holds one that has its
   conversions, and a reader of both gets the same instant from the clone's
   toDate() and toMillis() as from the original's; every other value is
   copied as it is. *)
RECURSIVE Preserved(_, _, _)
Preserved(hp, orig, clone) ==
  CASE orig.t = "ts" ->
         /\ clone.t = "ts"
         /\ ResolveValue(hp, clone).date = ResolveValue(hp, orig).date
    [] orig.t = "rawts" ->
         /\ clone.t = "ts"
         /\ ResolveValue(hp, clone).date =
               orig.seconds * 1000 + orig.nanoseconds \div 1000000
    [] orig.t = "arr" ->
         /\ clone.t = "arr"
         /\ Len(clone.v) = Len(orig.v)
         /\ \A i \in 1..Len(orig.v) : Preserved(hp, orig.v[i], clone.v[i])
    [] orig.t = "obj" ->
         /\ clone.t = "obj"
         /\ DOMAIN clone.f = DOMAIN orig.f
         /\ \A k \in DOMAIN orig.f : Preserved(hp, orig.f[k], clone.f[k])
    [] OTHER -> clone = orig

C15_ClonePreservesTemporalValues ==
  last.op = "clone" => Preserved(heap, last.input, last.output)

(* C16: the documents of a subcollection live under the parent document's
   path + '/' + name: what collection('users').doc(u).collection(name) reads,
   by a handle or by a query, is what the Store holds under that collection
   path (at the start, the seed's entry of that key), and set, update,
   delete and add through a subcollection leave the documents of every
   other collection path as they were. *)
PathOf(parent, name) == parent.coll \o <<parent.id, name>>

StoredUnder(db, collectionPath) ==
  IF collectionPath \in DOMAIN db THEN db[collectionPath] ELSE <<>>

C16_SubcollectionAddressing ==
  /\ last.op = "subGet" =>
        LET h == GetDocMock(PathOf(last.parent, last.name), last.docId)
        IN  /\ last.exists = SnapExists(dbData, h)
            /\ last.data = SnapView(dbData, heap, h)
  /\ last.op = "subQuery" =>
        LET bucket == StoredUnder(dbData, PathOf(last.parent, last.name))
        IN  /\ Len(last.result.docs) = Len(bucket)
            /\ \A i \in 1..Len(bucket) :
                  /\ last.result.docs[i].id = Str(bucket[i].id)
                  /\ last.result.docs[i].data = Resolve(heap, FieldsOf(heap, bucket[i].obj))
  /\ (last.op \in {"set", "update", "delete", "add"} /\ Len(last.h.coll) = 3) =>
        /\ heap = last.pre.hp
        /\ \A c \in (DOMAIN dbData \cup DOMAIN last.pre.db) \ {last.h.coll} :
              StoredUnder(dbData, c) = StoredUnder(last.pre.db, c)

(* An add through alice's posts while bob's posts and users hold documents,
   and a read of the seed's post through the subcollection. *)
C16_Witness ==
  /\ last.op = "add"
  /\ last.h.coll = PostsColl
  /\ Len(dbData[PostsColl]) > Len(last.pre.db[PostsColl])
  /\ Len(dbData[<<"users", "bob", "posts">>]) = 1
  /\ Len(dbData[UsersColl]) = 2

(* C17: each queued intent is applied by exactly one commit: a commit
   leaves the queue empty and applies the queue it found, intent by intent;
   a commit that finds the queue empty changes nothing, whatever was written
   since the commit before; an enqueue adds its intent at the end of the
   queue and no other step touches the queue, so that what a commit finds
   is what was enqueued since the commit before it. *)
C17_CommitEmptiesTheQueue ==
  [][ /\ last'.op = "commit" =>
           /\ ops' = <<>>
           /\ last'.queue = ops
           /\ [db |-> dbData', hp |-> heap'] = CommitAll([db |-> dbData, hp |-> heap], ops)
           /\ ops = <<>> => (dbData' = dbData /\ heap' = heap)
      /\ last'.op = "enqueue" => ops' = Append(ops, last'.intent)
      /\ last'.op \notin {"commit", "enqueue"} => ops' = ops ]_vars

(* A commit that found the queue empty after intents had been enqueued and
   committed, with a document in the Store. *)
C17_Witness ==
  /\ last.op = "commit"
  /\ last.queue = <<>>
  /\ nops > 0
  /\ \E h \in Handles : SnapExists(dbData, h)

(* C18: db.doc(path) throws the invalid-path error whenever the path has
   fewer than two segments: no '/', or nothing before the first '/', or
   nothing between the first '/' and the next one or the end; the call
   itself throws, no handle is made and the Store is as it was. *)
FirstSlash(path) == CHOOSE i \in 1..Len(path) :
                      path[i] = "/" /\ \A j \in 1..(i - 1) : path[j] # "/"

FewerThanTwoSegments(path) ==
  \/ \A i \in 1..Len(path) : path[i] # "/"
  \/ path[1] = "/"
  \/ FirstSlash(path) = Len(path)
  \/ path[FirstSlash(path) + 1] = "/"

C18_InvalidPathThrows ==
  (last.op = "dbDoc" /\ FewerThanTwoSegments(last.path)) =>
     /\ last.outcome = "throws"
     /\ docMocks = last.pre.dm
     /\ dbData = last.pre.db

(* doc('users/') thrown after handles were made and a document written. *)
C18_Witness ==
  /\ last.op = "dbDoc"
  /\ last.path = <<"users", "/">>
  /\ last.outcome = "throws"
  /\ docMocks # NoHandles
  /\ SnapExists(dbData, GetDocMock(<<"alice">>, "users"))

(* C19: a document snapshot is a point-in-time result: its exists flag and
   the value of its data() are those of the Store at the moment of get(),
   and stay so after any later set, update, delete or commit. *)
C19_SnapshotIsPointInTime ==
  snap.held =>
     /\ snap.exists = SnapExists(snap.at.db, snap.h)
     /\ SnapshotData(dbData, heap, snap) = SnapView(snap.at.db, snap.at.hp, snap.h)

(* C20: for every stored document of the queried collection that survives
   the filters, whatever fields it holds, the query snapshot has exactly
   one entry whose id is the id the document is stored under; that entry's
   data() is the document's stored fields, its exists is true and its ref
   is the memoized handle of the collection path and that id; size is the
   number of entries and empty holds exactly when size is 0. *)
EntriesOf(i) == {k \in 1..Len(last.result.docs) : last.result.docs[k].id = Str(PreBucket[i].id)}

C20_EntriesAreTheStoredDocuments ==
  (last.op = "query" /\ last.chain.limit = <<>>) =>
     /\ last.result.size = Len(last.result.docs)
     /\ last.result.empty <=> (last.result.size = 0)
     /\ \A i \in 1..Len(PreBucket) :
           Survives(i) =>
              /\ Cardinality(EntriesOf(i)) = 1
              /\ \A k \in EntriesOf(i) :
                    /\ last.result.docs[k].data = Resolve(last.pre.hp, PreFields(i))
                    /\ last.result.docs[k].exists
                    /\ last.result.docs[k].ref = GetDocMock(last.chain.coll, PreBucket[i].id)
                    /\ last.result.docs[k].ref.path \in DOMAIN docMocks

----------------------------------------------------------------------------
(* Properties of two mocks of one seed (specification SpecTwo) *)

(* The Store a mock has when it is made from the seed. *)
FreshStore == CreateFirestoreMock(SeedFrom(SeedHeap))

(* C21: two mocks made from the same seed object share no Store: whatever
   is written through the first (set, update, delete, add, commit), every
   handle get() and every query get() of the second gives what it gave
   when the mocks were made. *)
C21_MocksShareNoStore ==
  /\ last.op = "otherGet" =>
        /\ last.exists = SnapExists(FreshStore, last.h)
        /\ last.data = SnapView(FreshStore, SeedHeap, last.h)
  /\ last.op = "otherQuery" =>
        last.result = QueryGet(FreshStore, SeedHeap, last.chain)
  /\ last.op \in {"set", "update", "delete", "add", "commit"} =>
        \A h \in ItemHandles :
           SnapView(SecondStore(dbData, heap), heap, h)
             = SnapView(SecondStore(last.pre.db, last.pre.hp), last.pre.hp, h)

(* The second mock is read after the first mock's documents were both
   changed and one was added. *)
C21_Witness ==
  /\ last.op = "otherQuery"
  /\ last.result.size = 2
  /\ Len(dbData[ItemsColl]) = 2
  /\ ~SnapExists(dbData, GetDocMock(ItemsColl, "db"))
  /\ SnapData(dbData, heap, GetDocMock(ItemsColl, "da")) # SnapData(FreshStore, SeedHeap, GetDocMock(ItemsColl, "da"))

----------------------------------------------------------------------------
(* Properties of add (specification SpecSub) *)

(* C22: collection.add(data) makes exactly one new document in the
   collection, under an id that was not in it before, with the fields of
   data; the documents that were there are as they were, the collection
   has one document more, and the returned handle has the new id. *)
C22_AddMakesOneNewDocument ==
  last.op = "add" =>
    LET before == StoredUnder(last.pre.db, last.h.coll)
        after == StoredUnder(dbData, last.h.coll)
    IN  /\ \A i \in 1..Len(before) : before[i].id # last.h.id
        /\ Len(after) = Len(before) + 1
        /\ \A i \in 1..Len(before) :
              /\ i <= Len(after)
              /\ after[i].id = before[i].id
              /\ FieldsOf(heap, after[i].obj) = FieldsOf(last.pre.hp, before[i].obj)
        /\ SnapExists(dbData, last.h)
        /\ SnapData(dbData, heap, last.h) = last.pre.hp[last.p]

----------------------------------------------------------------------------
(* More properties of the query engine (specifications SpecFilter, SpecChain) *)

(* The millisecond instant of a value read as a point in time. *)
PointInTime(v) == IF v.t = "str" THEN DateParse(v.v).v ELSE Instant(v)

(* C23: where(field, '!=', v), when the document's value and v are both
   points in time (a native date, a Temporal Value, a string that parses
   as a date), keeps exactly the documents whose instant differs from the
   instant of v. *)
C23_DateInequality ==
  (/\ last.op = "query"
   /\ Len(last.chain.filters) = 1
   /\ last.chain.filters[1].field = "v"
   /\ last.chain.filters[1].op = "!="
   /\ TimeLike(last.chain.filters[1].value)) =>
    \A i \in 1..Len(PreBucket) :
       TimeLike(FieldValue(PreFields(i), "v")) =>
         (Returned(i) <=> PointInTime(PreFields(i)["v"])
                            # PointInTime(last.chain.filters[1].value))

(* The argument of the last call of fn among the calls that led to the
   chain i (none: the empty sequence), and the filters of its where calls. *)
RECURSIVE LastOf(_, _, _)
LastOf(cs, i, fn) ==
  IF cs[i].madeFrom = 0 THEN <<>>
  ELSE IF cs[i].call.fn = fn THEN <<cs[i].call.arg>>
  ELSE LastOf(cs, cs[i].madeFrom, fn)

RECURSIVE FiltersOf(_, _)
FiltersOf(cs, i) ==
  IF cs[i].madeFrom = 0 THEN <<>>
  ELSE FiltersOf(cs, cs[i].madeFrom)
         \o (IF cs[i].call.fn = "where" THEN <<cs[i].call.arg>> ELSE <<>>)

(* C24: a chain holds at most one ordering and one limit.  orderBy puts its
   ordering in place of an earlier one and limit its limit in place of an
   earlier one; each of where, orderBy and limit keeps what it does not
   replace; get() applies the last ordering and the last limit only. *)
C24_LastOrderingAndLimitWin ==
  /\ \A i \in 1..Len(chains) :
        /\ Len(chains[i].options.orderBy) <= 1
        /\ Len(chains[i].options.limit) <= 1
        /\ chains[i].options.orderBy = LastOf(chains, i, "orderBy")
        /\ chains[i].options.limit = LastOf(chains, i, "limit")
        /\ chains[i].options.filters = FiltersOf(chains, i)
  /\ (last.op = "query" /\ "i" \in DOMAIN last) =>
        /\ last.result =
              QueryGet(last.pre.db, last.pre.hp,
                       [coll |-> ItemsColl, filters |-> FiltersOf(chains, last.i),
                        orderBy |-> LastOf(chains, last.i, "orderBy"),
                        limit |-> LastOf(chains, last.i, "limit")])
        /\ LastOf(chains, last.i, "limit") # <<>> =>
              last.result.size <= LastOf(chains, last.i, "limit")[1]

(* get() has run on q.orderBy(order asc).orderBy(order desc) and has
   returned the three documents with da, the smallest, not first. *)
C24_Witness ==
  /\ last.op = "query" /\ "i" \in DOMAIN last /\ last.i = 3
  /\ Len(chains) = 3
  /\ chains[3].madeFrom = 2 /\ chains[2].madeFrom = 1
  /\ chains[2].call.fn = "orderBy" /\ chains[3].call.fn = "orderBy"
  /\ chains[2].call.arg.direction = "asc" /\ chains[3].call.arg.direction = "desc"
  /\ last.result.size = 3
  /\ last.result.docs[1].key # "da"

----------------------------------------------------------------------------
(* Properties of the Temporal Value's fields (specification SpecClone) *)

(* Every Temporal Value in v was built by fromMillis or fromDate. *)
RECURSIVE BuiltByConstructors(_)
BuiltByConstructors(v) ==
  CASE v.t = "ts" -> "now" \notin DOMAIN v
    [] v.t = "rawts" -> FALSE
    [] v.t = "arr" -> \A i \in 1..Len(v.v) : BuiltByConstructors(v.v[i])
    [] v.t = "obj" -> \A k \in DOMAIN v.f : BuiltByConstructors(v.f[k])
    [] OTHER -> TRUE

(* Every Temporal Value in v has seconds * 1000 + nanoseconds / 10^6 equal
   to what its toMillis() returns. *)
RECURSIVE FieldsConsistent(_, _)
FieldsConsistent(hp, v) ==
  CASE v.t = "ts" ->
         v.seconds * 1000 + v.nanoseconds \div 1000000 = ResolveValue(hp, v).date
    [] v.t = "arr" -> \A i \in 1..Len(v.v) : FieldsConsistent(hp, v.v[i])
    [] v.t = "obj" -> \A k \in DOMAIN v.f : FieldsConsistent(hp, v.f[k])
    [] OTHER -> TRUE

(* C25: for every integer ms, negative ones too, the Temporal Value built
   by fromMillis(ms) or fromDate(a date of that time), and every deep clone
   of it, has seconds * 1000 + nanoseconds / 10^6 = toMillis() = ms. *)
C25_FieldsConsistentWithConversions ==
  BuiltByConstructors(heap["X"].v) =>
     /\ FieldsConsistent(heap, heap["X"].v)
     /\ last.op = "clone" => FieldsConsistent(heap, last.output)

----------------------------------------------------------------------------
(* Properties of calls that are not awaited (specification SpecAsync) *)

(* The calls of the log applied one after the other, in call order. *)
RECURSIVE Replay(_, _)
Replay(st, log) ==
  IF log = <<>> THEN st ELSE Replay(ApplyCall(st, Head(log)), Tail(log))

(* C26: every write, add and commit takes effect as one step at the call,
   before its promise is awaited.  However calls, pending promises and
   reads interleave, the Store is at every moment the result of the calls
   issued so far applied one after the other in call order (a commit as a
   whole), and a read sees exactly that Store. *)
C26_EffectAtTheCall ==
  /\ dbData = Replay(last.init, last.log).db
  /\ heap = Replay(last.init, last.log).hp
  /\ ops = Replay(last.init, last.log).ops
  /\ last.op = "read" =>
        /\ last.exists = SnapExists(Replay(last.init, last.log).db, last.h)
        /\ last.data = SnapView(Replay(last.init, last.log).db,
                                Replay(last.init, last.log).hp, last.h)

(* Bob is read, with three promises pending, after a set and an update were
   enqueued and committed: the read sees both. *)
C26_Witness ==
  /\ last.op = "read"
  /\ last.h = Bob
  /\ last.pending = 3
  /\ last.log = << [kind |-> "enqueue", intent |-> SetOp(Bob, "PA", FALSE)],
                   [kind |-> "enqueue", intent |-> UpdateOp(Bob, "PB")],
                   [kind |-> "commit"] >>
  /\ last.data = [a |-> Num(1), b |-> Num(2)]

----------------------------------------------------------------------------
(* More properties of the batch (specifications SpecBadPath, SpecAlias) *)

(* The intent's path lacks a collection segment or a document segment. *)
LacksSegment(op) ==
  \/ Len(op.ref.path) < 2
  \/ op.ref.path[1] = ""
  \/ op.ref.path[2] = ""

(* C27: commit() raises an invalid-address error when the path of a queued
   intent lacks a collection segment or a document segment, and then none
   of the queue's intents has been applied to the Store. *)
C27_CommitRejectsBadPaths ==
  (last.op = "commit" /\ \E k \in 1..Len(last.queue) : LacksSegment(last.queue[k])) =>
     /\ last.outcome = "throws"
     /\ dbData = last.pre.db
     /\ heap = last.pre.hp

(* The documents of the top-level collection, and what a read of each
   gives (Undefined: absent). *)
TopHandles == {GetDocMock(UsersColl, "alice"), GetDocMock(UsersColl, "bob")}

TopView(db, hp) == [h \in TopHandles |-> SnapData(db, hp, h)]

(* The operation on the handle that corresponds to a queued intent. *)
DirectCall(db, hp, op) ==
  CASE op.type = "set" -> HandleSet(db, hp, op.ref, op.data, op.merge)
    [] op.type = "update" -> HandleUpdate(db, hp, op.ref, op.data)
    [] op.type = "delete" -> HandleDelete(db, op.ref)

(* C28: for documents of top-level collections, one intent enqueued and
   committed leaves the Store as the corresponding call on the document's
   handle would: every document reads the same, for every prior Store and
   every payload. *)
C28_SingleIntentEqualsDirectCall ==
  (last.op = "commit" /\ Len(last.queue) = 1) =>
     TopView(dbData, heap)
       = TopView(DirectCall(last.pre.db, last.pre.hp, last.queue[1]), last.pre.hp)

(* C29: a write addressed to one document (a handle set, update or delete,
   or a committed intent) changes the fields of that document only: every
   other document reads as before, also when one payload object had been
   passed to set() on two documents. *)
C29_WritesTouchOneDocument ==
  /\ last.op \in {"set", "update", "delete"} =>
        \A h \in TopHandles \ {last.h} :
           SnapData(dbData, heap, h) = SnapData(last.pre.db, last.pre.hp, h)
  /\ last.op = "commit" =>
        \A h \in TopHandles \ {last.queue[k].ref : k \in 1..Len(last.queue)} :
           SnapData(dbData, heap, h) = SnapData(last.pre.db, last.pre.hp, h)

(* ------------------------------------------------------------------ *)
(* Reads and the Store (specification SpecRead)                         *)
(* ------------------------------------------------------------------ *)

(* The ids of the documents of a collection, in the bucket's order. *)
IdsIn(db, c) == [i \in 1..Len(db[c]) |-> db[c][i].id]

(* C30: reads never change the Store: after handle.get() or a query get()
   with any filters, ordering and limit, the collection buckets, the
   documents that exist and the fields of every document are what they
   were before the read. *)
C30_ReadsLeaveTheStore ==
  last.op \in {"get", "query"} =>
     /\ DOMAIN dbData = DOMAIN last.pre.db
     /\ \A c \in DOMAIN dbData \cap DOMAIN last.pre.db :
          /\ IdsIn(dbData, c) = IdsIn(last.pre.db, c)
          /\ \A i \in 1..Len(dbData[c]) :
               i <= Len(last.pre.db[c]) =>
                 FieldsOf(heap, dbData[c][i].obj)
                   = FieldsOf(last.pre.hp, last.pre.db[c][i].obj)

(* A query with a filter, an ordering and a limit has returned fewer
   documents than its collection holds, the collection having a document
   stored by set(). *)
C30_Witness ==
  /\ last.op = "query"
  /\ Len(last.chain.filters) > 0
  /\ last.chain.orderBy # <<>>
  /\ last.chain.limit # <<>>
  /\ last.chain.coll \in DOMAIN dbData
  /\ Len(last.result.docs) \in 1..(Len(dbData[last.chain.coll]) - 1)
  /\ \E i \in 1..Len(dbData[last.chain.coll]) : dbData[last.chain.coll][i].obj.k = "ref"

(* ------------------------------------------------------------------ *)
(* The handle db.doc(path) returns (specification SpecDeep)             *)
(* ------------------------------------------------------------------ *)

(* The string form of a handle's path: its segments with '/' between. *)
RECURSIVE PathText(_)
PathText(segments) ==
  IF segments = <<>> THEN <<>>
  ELSE IF Len(segments) = 1 THEN <<Head(segments)>>
  ELSE <<Head(segments), "/">> \o PathText(Tail(segments))

(* C31: for every path string db.doc(path) accepts, the handle returned
   addresses exactly that path: its path is the given string, so that
   doc('c/d/s/e') is the handle collection('c').doc('d').collection('s')
   .doc('e') gives, and two path strings never give one handle. *)
C31_DocAddressesItsPath ==
  (last.op = "dbDoc" /\ last.outcome = "handle") =>
     /\ PathText(last.h.path) = last.path
     /\ Len(Split(last.path)) % 2 = 0 => last.h = ChainDoc(Split(last.path))

====
